---- MODULE Spec2Model ----
(***************************************************************************)
(* Verification model of rf_pkt_drv: the byte ring buffer (ring_buf.c) and *)
(* the daemon's event loop (main.c).                                       *)
(*                                                                         *)
(* The module holds one state machine per component.  SpecSparse drives a  *)
(* sparse_buf_t, SpecParser runs parse_reg_file on a configuration file,   *)
(* SpecHex runs dehexify on a string.  SpecRing drives a                   *)
(* single ring buffer with arbitrary add / consume / clear calls.          *)
(* SpecDaemon (and FairDaemon, the same machine with the scheduling        *)
(* fairness of a running process) is main(): start-up, the pselect loop,   *)
(* socket servicing, receive_frame and shutdown.  SpecSockPath is main()'s *)
(* handling of the -s socket path up to the copy into sun_path.            *)
(* SpecDriver is the chip drivers (si443x.c, sx1231.c) called as main()    *)
(* calls them: rf_open, rf_init and rf_handle against a chip whose         *)
(* registers are tracked, with the SPI transactions of every call kept.    *)
(***************************************************************************)
EXTENDS Integers, Sequences, FiniteSets, TLC

VARIABLES
    rb,         \* ring spec: the ring_buf_t under test
    rb_pre,     \* ring spec: the ring_buf_t before the last call
    rb_op,      \* ring spec: the last call, [name, data, cnt]
    rb_fault,   \* ring spec: "none", "assert" (assertion failed) or "hang"
    pc,             \* daemon: where main() stands
    retval,         \* daemon: main's retval
    exit_status,    \* daemon: the status the process ended with ("none" while it runs)
    exit_cause,     \* daemon: the condition that ended it ("none" while it runs)
    open_fds,       \* daemon: the descriptors the process holds open
    sock_fd,        \* daemon: main's sock_fd (-1 or SockFd)
    sock_file,      \* daemon: the socket file exists in the file system
    client_fd,      \* daemon: main's client_fd (-1 or the connection it names)
    conn_count,     \* daemon: connections accepted so far
    dev,            \* daemon: the device handle's framing state
    rx_data,        \* daemon: the receive ring buffer
    terminate,      \* daemon: the termination flag
    sig_pending,    \* daemon: a termination signal is pending (blocked)
    sel,            \* daemon: what pselect returned: r, errno, the ready sets
    iter_log,       \* daemon: what this loop iteration did so far, in order
    undelivered,    \* daemon: bytes appended for this client and not yet accepted
    wr,             \* daemon: the last client write: offered, accepted, expected
    rd_data,        \* daemon: the bytes the last client read returned
    handle_ret,     \* daemon: what the receive_frame call just made returned
    daemon_fault,   \* daemon: "none" or "assert" (ring_buf_consume's assertion)
    sb,             \* sparse spec: the sparse_buf_t under test
    sb_pre,         \* sparse spec: the sparse_buf_t before the last call
    sb_op,          \* sparse spec: the last call, [name, off, val, ret]
    sb_written,     \* sparse spec: per offset, the value last written since the
                    \* last clear or init (-1: not written)
    pf_file,        \* parser spec: the bytes of the configuration file
    pf_regs,        \* parser spec: the register buffer handed to parse_reg_file
    pf_pre,         \* parser spec: the register buffer as it was at the call
    pf_ret,         \* parser spec: [done, ret, err, line_nr], the call made, its
                    \* return value and the error it reported
    hx_in,          \* decoder spec: the input string
    hx_n,           \* decoder spec: the number of bytes asked for
    hx_res,         \* decoder spec: [done, ret, out], the call made and its result
    sp_pc,          \* socket path spec: where main() stands ("args", "parsed",
                    \* "bound", "exit")
    sp_arg,         \* socket path spec: [given, path], the -s option and main's
                    \* sock_path
    sp_sun,         \* socket path spec: the bytes of local.sun_path
    sp_spill,       \* socket path spec: the bytes strcpy wrote past local.sun_path
    sp_fault,       \* socket path spec: "none", "assert" or "crash"
    drv_chip,       \* driver spec: the transceiver, "si443x" or "sx1231"
    drv_dev,        \* driver spec: the rfm_t handle, [fd, txhdlen, fixpklen]
    drv_hw,         \* driver spec: the chip's registers, by address
    drv_call        \* driver spec: the driver call just made: its name, its
                    \* arguments before and after, its return value and its
                    \* SPI transactions; and how far main() has got

ringVars == <<rb, rb_pre, rb_op, rb_fault>>

daemonVars == <<pc, retval, exit_status, exit_cause, open_fds, sock_fd, sock_file,
                client_fd, conn_count, dev, rx_data, terminate, sig_pending,
                sel, iter_log, undelivered, wr, rd_data, handle_ret, daemon_fault>>

sparseVars == <<sb, sb_pre, sb_op, sb_written>>

parserVars == <<pf_file, pf_regs, pf_pre, pf_ret>>

hexVars == <<hx_in, hx_n, hx_res>>

argVars == <<sp_pc, sp_arg, sp_sun, sp_spill, sp_fault>>

drvVars == <<drv_chip, drv_dev, drv_hw, drv_call>>

vars == <<ringVars, daemonVars, sparseVars, parserVars, hexVars, argVars, drvVars>>

----------------------------------------------------------------------------
(* Bounds of the model *)

\* largest size handed to ring_buf_init in the ring specification
MaxSize == 4

\* the size main() gives its receive ring buffer (RING_BUFFER_SIZE, 4096 in
\* main.c), scaled down
RING_BUFFER_SIZE == 3

\* the size of rdbuf in main() (1024 in main.c), scaled down
MaxRead == 1

\* connections the environment opens in one run
MaxConns == 2

\* largest header length field and largest packet length the chip is
\* configured with or reports in range
MaxHdLen == 1
MaxPktLen == 1

\* largest size handed to sparse_buf_init in the sparse specification
MaxSparseSize == 4

\* bits in an unsigned int (UINT_BIT_CNT, 32 in sparse_buf.c), scaled down so
\* that small buffers span several bitmap words
UINT_BIT_CNT == 2

\* longest input string and largest byte count handed to dehexify in the
\* decoder specification
MaxHexLen == 4
MaxHexBytes == 2

\* the size of parse_reg_file's line buffer (char buf[1024]), scaled down:
\* a WDS line, one blank and the terminator fill it but for the NUL
LineBufSize == 10

\* lines of a configuration file in the parser specification
MaxCfgLines == 2

\* data bytes of the ring specification; ring_buf.c never inspects a byte,
\* two values are enough to tell positions apart
Byte == {0, 1}

----------------------------------------------------------------------------
(* Helpers *)

Min(a, b) == IF a <= b THEN a ELSE b

\* all sequences over S of length at most n
SeqsUpTo(S, n) == UNION {[1..k -> S] : k \in 0..n}

\* the last n elements of s (all of s when it is shorter)
LastN(s, n) == IF Len(s) <= n THEN s ELSE SubSeq(s, Len(s) - n + 1, Len(s))

\* the first n elements of s
FirstN(s, n) == SubSeq(s, 1, Min(n, Len(s)))

----------------------------------------------------------------------------
(* ring_buf.c *)

\* ring_buf_init: storage of `size` bytes as malloc returns it (contents
\* arbitrary: `mem`), both offsets 0
ring_buf_init(size, mem) ==
    [size |-> size, woff |-> 0, roff |-> 0, buf |-> mem]

ring_buf_bytes_used(obj) ==
    IF obj.woff < obj.roff
    THEN obj.size + obj.woff - obj.roff
    ELSE obj.woff - obj.roff

ring_buf_bytes_free(obj) == obj.size - ring_buf_bytes_used(obj) - 1

ring_buf_bytes_readable(obj) ==
    IF obj.woff < obj.roff
    THEN obj.size - obj.roff
    ELSE obj.woff - obj.roff

\* a variant of ring_buf_bytes_writable without the slot kept free when the
\* read offset is 0
ring_buf_bytes_writable_to_end(obj) ==
    IF obj.woff < obj.roff THEN obj.roff - obj.woff - 1
    ELSE obj.size - obj.woff

ring_buf_bytes_writable(obj) ==
    IF obj.woff < obj.roff THEN obj.roff - obj.woff - 1
    ELSE IF obj.roff = 0 THEN obj.size - obj.woff - 1
    ELSE obj.size - obj.woff

ring_buf_empty(obj) == obj.woff = obj.roff

ring_buf_size(obj) == obj.size

\* ring_buf_begin: the offset of &buf[roff]
ring_buf_begin(obj) == obj.roff

\* the assertion at the head of ring_buf_consume
consume_assert(obj, cnt) == cnt <= ring_buf_bytes_used(obj)

\* a variant of ring_buf_consume that leaves the offsets of an emptied
\* buffer where they are
ring_buf_consume_noreset(obj, cnt) ==
    [obj EXCEPT !.roff = (obj.roff + cnt) % obj.size]

ring_buf_consume(obj, cnt) ==
    LET r == (obj.roff + cnt) % obj.size
    IN  IF r = obj.woff
        THEN [obj EXCEPT !.roff = 0, !.woff = 0]
        ELSE [obj EXCEPT !.roff = r]

ring_buf_clear(obj) == [obj EXCEPT !.roff = 0, !.woff = 0]

\* memcpy(&buf[at], data, n): bytes past the storage are out of bounds and
\* are not stored
memcpy_into(mem, size, at, data, n) ==
    [i \in 0..(size - 1) |->
        IF i >= at /\ i < at + n THEN data[i - at + 1] ELSE mem[i]]

\* add_copy_step without the wrap of woff at the end of the storage
add_copy_step_nowrap(obj, data) ==
    LET writable == ring_buf_bytes_writable(obj)
        copy_len == IF Len(data) <= writable THEN Len(data) ELSE writable
    IN  [obj EXCEPT !.buf = memcpy_into(obj.buf, obj.size, obj.woff, data, copy_len),
                    !.woff = obj.woff + copy_len]

\* one pass of the copy loop of ring_buf_add
add_copy_step(obj, data) ==
    LET writable == ring_buf_bytes_writable(obj)
        copy_len == IF Len(data) <= writable THEN Len(data) ELSE writable
        w        == obj.woff + copy_len
    IN  [obj EXCEPT !.buf = memcpy_into(obj.buf, obj.size, obj.woff, data, copy_len),
                    !.woff = IF w = obj.size THEN 0 ELSE w]

add_copy_len(obj, data) ==
    LET writable == ring_buf_bytes_writable(obj)
    IN  IF Len(data) <= writable THEN Len(data) ELSE writable

\* the while (len) loop of ring_buf_add; a pass that copies nothing would
\* repeat for ever, the recursion stops there and add_hangs reports it
RECURSIVE add_copy_loop(_, _)
add_copy_loop(obj, data) ==
    IF Len(data) = 0 \/ add_copy_len(obj, data) <= 0 THEN obj
    ELSE add_copy_loop(add_copy_step(obj, data),
                       SubSeq(data, add_copy_len(obj, data) + 1, Len(data)))

RECURSIVE add_copy_passes(_, _)
add_copy_passes(obj, data) ==
    IF Len(data) = 0 \/ add_copy_len(obj, data) <= 0 THEN 0
    ELSE 1 + add_copy_passes(add_copy_step(obj, data),
                             SubSeq(data, add_copy_len(obj, data) + 1, Len(data)))

RECURSIVE add_copy_hangs(_, _)
add_copy_hangs(obj, data) ==
    IF Len(data) = 0 THEN FALSE
    ELSE IF add_copy_len(obj, data) <= 0 THEN TRUE
    ELSE add_copy_hangs(add_copy_step(obj, data),
                        SubSeq(data, add_copy_len(obj, data) + 1, Len(data)))

\* add_overwrite keeping the first size - 1 bytes of the input and the old
\* read offset
add_overwrite_head(obj, data) ==
    LET len == obj.size - 1
        d   == FirstN(data, len)
    IN  [obj EXCEPT !.buf = memcpy_into(obj.buf, obj.size, 0, d, len),
                    !.woff = len]

\* the branch of ring_buf_add for len >= size - 1
add_overwrite(obj, data) ==
    LET len == obj.size - 1
        d   == LastN(data, len)
    IN  [obj EXCEPT !.buf = memcpy_into(obj.buf, obj.size, 0, d, len),
                    !.woff = len,
                    !.roff = 0]

\* add_make_room dropping one byte more than needed
add_make_room_greedy(obj, len) ==
    LET available == ring_buf_bytes_free(obj)
    IN  IF len > available
        THEN ring_buf_consume(obj, Min(len - available + 1, ring_buf_bytes_used(obj)))
        ELSE obj

\* add_make_room dropping one byte less than needed
add_make_room_short(obj, len) ==
    LET available == ring_buf_bytes_free(obj)
    IN  IF len > available THEN ring_buf_consume(obj, len - available - 1) ELSE obj

\* the object the copy loop of ring_buf_add starts from: room is made first
add_make_room(obj, len) ==
    LET available == ring_buf_bytes_free(obj)
    IN  IF len > available THEN ring_buf_consume(obj, len - available) ELSE obj

ring_buf_add(obj, data) ==
    IF Len(data) >= obj.size - 1
    THEN add_overwrite(obj, data)
    ELSE add_copy_loop(add_make_room(obj, Len(data)), data)

\* what goes wrong inside ring_buf_add(obj, data), if anything
add_fault(obj, data) ==
    IF Len(data) >= obj.size - 1 THEN "none"
    ELSE IF Len(data) > ring_buf_bytes_free(obj)
            /\ ~consume_assert(obj, Len(data) - ring_buf_bytes_free(obj))
         THEN "assert"
    ELSE IF add_copy_hangs(add_make_room(obj, Len(data)), data) THEN "hang"
    ELSE "none"

\* the bytes held, oldest first, read across the wrap point
Contents(obj) ==
    [i \in 1..ring_buf_bytes_used(obj) |-> obj.buf[(obj.roff + i - 1) % obj.size]]

----------------------------------------------------------------------------
(* The ring specification: one buffer, any sequence of calls *)

\* the variables of the other components while one specification runs
NoSparse == [size |-> 0, valid |-> <<>>, values |-> <<>>]

NoParse == [done |-> FALSE, ret |-> 0, err |-> "", line_nr |-> 0]

NoSparseOp == [name |-> "none", off |-> 0, val |-> 0, ret |-> 0]

NoHexRes == [done |-> FALSE, ret |-> 0, out |-> <<>>]

SparseIdle ==
    /\ sb = NoSparse
    /\ sb_pre = NoSparse
    /\ sb_op = NoSparseOp
    /\ sb_written = <<>>

ParserIdle ==
    /\ pf_file = <<>>
    /\ pf_regs = NoSparse
    /\ pf_pre = NoSparse
    /\ pf_ret = NoParse

HexIdle ==
    /\ hx_in = <<>>
    /\ hx_n = 0
    /\ hx_res = NoHexRes

NoArg == [given |-> FALSE, path |-> <<>>]

ArgIdle ==
    /\ sp_pc = "exit"
    /\ sp_arg = NoArg
    /\ sp_sun = <<>>
    /\ sp_spill = <<>>
    /\ sp_fault = "none"

NoDev == [fd |-> -1, txhdlen |-> 0, fixpklen |-> 0]

NoCall == [name |-> "none"]

DrvIdle ==
    /\ drv_chip = "none"
    /\ drv_dev = NoDev
    /\ drv_hw = <<>>
    /\ drv_call = NoCall

NoSel == [r |-> 0, eintr |-> FALSE, rd_sock |-> FALSE, rd_client |-> FALSE,
          wr_client |-> FALSE]

NoWrite == [done |-> FALSE, offered |-> <<>>, wlen |-> 0, expect |-> <<>>]

DaemonIdle ==
    /\ pc = "idle"
    /\ retval = "EXIT_SUCCESS"
    /\ exit_status = "none"
    /\ exit_cause = "none"
    /\ open_fds = {}
    /\ sock_fd = -1
    /\ sock_file = FALSE
    /\ client_fd = -1
    /\ conn_count = 0
    /\ dev = [txhdlen |-> 0, fixpklen |-> 0]
    /\ rx_data = ring_buf_init(1, [i \in {0} |-> 0])
    /\ terminate = 0
    /\ sig_pending = FALSE
    /\ sel = NoSel
    /\ iter_log = <<>>
    /\ undelivered = <<>>
    /\ wr = NoWrite
    /\ rd_data = <<>>
    /\ handle_ret = 0
    /\ daemon_fault = "none"

NoOp == [name |-> "init", data |-> <<>>, cnt |-> 0]

RingInit ==
    /\ DaemonIdle
    /\ SparseIdle
    /\ ParserIdle
    /\ HexIdle
    /\ ArgIdle
    /\ DrvIdle
    /\ \E size \in 1..MaxSize : \E mem \in [0..(size - 1) -> Byte] :
          rb = ring_buf_init(size, mem)
    /\ rb_pre = rb
    /\ rb_op = NoOp
    /\ rb_fault = "none"

RingAdd ==
    /\ rb_fault = "none"
    /\ \E data \in SeqsUpTo(Byte, rb.size) :
          /\ rb' = ring_buf_add(rb, data)
          /\ rb_op' = [name |-> "add", data |-> data, cnt |-> 0]
          /\ rb_fault' = add_fault(rb, data)
    /\ rb_pre' = rb
    /\ UNCHANGED <<daemonVars, sparseVars, parserVars, hexVars, argVars, drvVars>>

RingConsume ==
    /\ rb_fault = "none"
    /\ \E cnt \in 0..rb.size :
          /\ rb_op' = [name |-> "consume", data |-> <<>>, cnt |-> cnt]
          /\ \/ /\ consume_assert(rb, cnt)
                /\ rb' = ring_buf_consume(rb, cnt)
                /\ rb_fault' = "none"
             \/ /\ ~consume_assert(rb, cnt)
                /\ rb' = rb
                /\ rb_fault' = "assert"
    /\ rb_pre' = rb
    /\ UNCHANGED <<daemonVars, sparseVars, parserVars, hexVars, argVars, drvVars>>

RingClear ==
    /\ rb_fault = "none"
    /\ rb' = ring_buf_clear(rb)
    /\ rb_op' = [name |-> "clear", data |-> <<>>, cnt |-> 0]
    /\ rb_pre' = rb
    /\ UNCHANGED rb_fault
    /\ UNCHANGED <<daemonVars, sparseVars, parserVars, hexVars, argVars, drvVars>>

RingNext == RingAdd \/ RingConsume \/ RingClear

SpecRing == RingInit /\ [][RingNext]_vars

----------------------------------------------------------------------------
(* Claims about the ring buffer, checked under SpecRing *)

\* C1: after ring_buf_init and any sequence of add / consume (cnt <=
\* bytes_used) / clear calls, roff and woff lie in [0, size), bytes_used is
\* at most size - 1, and ring_buf_empty holds exactly when bytes_used is 0.
C1_CapacityInvariant ==
    rb_fault = "none" =>
        /\ rb.roff \in 0..(rb.size - 1)
        /\ rb.woff \in 0..(rb.size - 1)
        /\ ring_buf_bytes_used(rb) >= 0
        /\ ring_buf_bytes_used(rb) <= rb.size - 1
        /\ ring_buf_empty(rb) <=> (ring_buf_bytes_used(rb) = 0)

\* a full buffer whose data wraps around the end of the storage, reached by
\* an add
C1_Witness ==
    /\ rb_op.name = "add"
    /\ rb.size >= 4
    /\ rb.woff < rb.roff
    /\ ring_buf_bytes_used(rb) = rb.size - 1

\* C2: for a buffer holding C and an input D with len(D) < size - 1,
\* ring_buf_add(D) leaves exactly the last min(size - 1, len(C) + len(D))
\* bytes of C followed by D; when D exceeds the free space exactly the oldest
\* len(D) - free bytes of C are dropped and all of D is kept.
C2_OverwriteOnOverflow ==
    (rb_op.name = "add" /\ Len(rb_op.data) < rb_pre.size - 1) =>
        LET C    == Contents(rb_pre)
            D    == rb_op.data
            free == ring_buf_bytes_free(rb_pre)
        IN  /\ rb_fault = "none"
            /\ Contents(rb) = LastN(C \o D, Min(rb.size - 1, Len(C) + Len(D)))
            /\ Len(D) > free =>
                  Contents(rb) = SubSeq(C, Len(D) - free + 1, Len(C)) \o D

\* an add of two or more bytes that had to drop two or more old bytes and
\* wrapped the write offset
C2_Witness ==
    /\ rb_op.name = "add"
    /\ Len(rb_op.data) < rb_pre.size - 1
    /\ Len(rb_op.data) >= ring_buf_bytes_free(rb_pre) + 2
    /\ rb.woff < rb_pre.woff

\* C3: from any buffer state, ring_buf_add with len >= size - 1 discards the
\* previous content and leaves roff = 0, woff = size - 1, bytes_used =
\* size - 1, bytes_free = 0 and the last size - 1 bytes of the input readable.
C3_FullOverwriteReset ==
    (rb_op.name = "add" /\ Len(rb_op.data) >= rb_pre.size - 1) =>
        /\ rb.roff = 0
        /\ rb.woff = rb.size - 1
        /\ ring_buf_bytes_used(rb) = rb.size - 1
        /\ ring_buf_bytes_free(rb) = 0
        /\ ring_buf_bytes_readable(rb) = rb.size - 1
        /\ Contents(rb) = LastN(rb_op.data, rb.size - 1)

\* an input longer than the capacity added to a non-empty buffer whose read
\* offset had moved
C3_Witness ==
    /\ rb_op.name = "add"
    /\ rb.size >= 3
    /\ Len(rb_op.data) > rb_pre.size - 1
    /\ rb_pre.roff > 0
    /\ ~ring_buf_empty(rb_pre)

\* C26: ring_buf_consume(cnt) with cnt <= bytes_used removes exactly the cnt
\* oldest bytes: bytes_used decreases by cnt and the remaining bytes keep
\* their order; if the buffer becomes empty both offsets are reset to 0,
\* otherwise roff advances by cnt modulo size and woff is unchanged; a call
\* with cnt > bytes_used violates the assertion.
C26_ConsumeOldest ==
    rb_op.name = "consume" =>
        LET cnt  == rb_op.cnt
            used == ring_buf_bytes_used(rb_pre)
        IN  /\ cnt > used <=> rb_fault = "assert"
            /\ cnt <= used =>
                  /\ ring_buf_bytes_used(rb) = used - cnt
                  /\ Contents(rb) = SubSeq(Contents(rb_pre), cnt + 1, used)
                  /\ IF cnt = used
                     THEN rb.roff = 0 /\ rb.woff = 0
                     ELSE /\ rb.roff = (rb_pre.roff + cnt) % rb_pre.size
                          /\ rb.woff = rb_pre.woff

\* a partial consume that wraps the read offset, and a consume that takes
\* all of a buffer whose offsets had moved
C26_Witness ==
    /\ rb_op.name = "consume"
    /\ rb_fault = "none"
    /\ rb_op.cnt >= 2
    /\ \/ /\ rb_op.cnt < ring_buf_bytes_used(rb_pre)
          /\ rb.roff < rb_pre.roff
          /\ rb.roff > 0
       \/ /\ rb_op.cnt = ring_buf_bytes_used(rb_pre)
          /\ rb_pre.roff > 0
          /\ rb_pre.woff > 0

\* C27: accessor consistency in every reachable state. bytes_free is size -
\* bytes_used - 1; bytes_readable is at most bytes_used, 0 exactly when the
\* buffer is empty, and stays inside the storage from roff; bytes_writable
\* is at most bytes_free, 0 exactly when bytes_free is 0, and stays inside
\* the storage from woff; writing bytes_writable bytes at woff never makes
\* woff equal roff.
C27_AccessorConsistency ==
    rb_fault = "none" =>
        LET used     == ring_buf_bytes_used(rb)
            free     == ring_buf_bytes_free(rb)
            readable == ring_buf_bytes_readable(rb)
            writable == ring_buf_bytes_writable(rb)
            w        == rb.woff + writable
        IN  /\ free = rb.size - used - 1
            /\ readable >= 0 /\ readable <= used
            /\ readable = 0 <=> ring_buf_empty(rb)
            /\ rb.roff + readable <= rb.size
            /\ writable >= 0 /\ writable <= free
            /\ writable = 0 <=> free = 0
            /\ w <= rb.size
            /\ writable > 0 => (IF w = rb.size THEN 0 ELSE w) # rb.roff

\* a buffer whose data wraps, with less readable than used, and whose free
\* space is cut by the read offset
C27_Witness ==
    /\ rb_fault = "none"
    /\ rb.woff < rb.roff
    /\ ring_buf_bytes_readable(rb) < ring_buf_bytes_used(rb)
    /\ ring_buf_bytes_writable(rb) > 0
    /\ ring_buf_bytes_writable(rb) = ring_buf_bytes_free(rb)

----------------------------------------------------------------------------
(* main.c: the daemon *)

SI443X_FIFO_SIZE == 64

\* descriptors: the server socket, the SPI device, one per connection
SockFd == <<"sock", 0>>
DevFd == <<"dev", 0>>
ClientFd(c) == <<"client", c>>

\* the client connections the process holds open
open_conns == {c \in 1..MaxConns : ClientFd(c) \in open_fds}

\* ring_buf_bytes_available: the name receive_frame and the unit tests use
\* for the free byte count
ring_buf_bytes_available(obj) == ring_buf_bytes_free(obj)

\* the length bytes the chip's FIFO can deliver: the small ones and one past
\* the limit of SI443X_FIFO_SIZE - 3
LenByte == (0..MaxPktLen) \cup {SI443X_FIFO_SIZE - 2}

\* what the chip answers during one receive_frame call: RXFFEM, the header
\* bytes, the payload bytes, and the overflow / underflow flags afterwards
receive_hdrlen(d) == d.txhdlen + (IF d.fixpklen = 0 THEN 1 ELSE 0)

ChipHeaders(d) ==
    IF d.fixpklen = 0
    THEN {h \o <<l>> : h \in [1..d.txhdlen -> Byte], l \in LenByte}
    ELSE [1..d.txhdlen -> Byte]

receive_pktlen(d, hdr) ==
    IF d.fixpklen = 0 THEN hdr[receive_hdrlen(d)] ELSE d.fixpklen

\* the payload read has the length asked for; none is read, and the status
\* is not looked at, when the length byte is rejected
ChipPayloads(d, hdr) ==
    IF d.fixpklen = 0 /\ receive_pktlen(d, hdr) > SI443X_FIFO_SIZE - 3
    THEN {[payload |-> <<>>, ffovfl |-> FALSE]}
    ELSE {[payload |-> p, ffovfl |-> o] :
             p \in [1..receive_pktlen(d, hdr) -> Byte], o \in BOOLEAN}

ChipReads(d) ==
    {[rxffem |-> TRUE, hdr |-> <<>>, payload |-> <<>>, ffovfl |-> FALSE]}
    \cup
    UNION {{[rxffem |-> FALSE, hdr |-> h, payload |-> x.payload, ffovfl |-> x.ffovfl] :
              x \in ChipPayloads(d, h)} : h \in ChipHeaders(d)}

\* receive_frame: its return value, the ring buffer afterwards and the bytes
\* it appended
receive_frame(d, rbuf, chip) ==
    IF chip.rxffem
    THEN [ret |-> 0, rbuf |-> rbuf, appended |-> <<>>, fault |-> "none"]
    ELSE IF d.fixpklen = 0 /\ receive_pktlen(d, chip.hdr) > SI443X_FIFO_SIZE - 3
    THEN [ret |-> -1, rbuf |-> rbuf, appended |-> <<>>, fault |-> "none"]
    ELSE IF chip.ffovfl
    THEN [ret |-> -1, rbuf |-> rbuf, appended |-> <<>>, fault |-> "none"]
    ELSE IF ring_buf_bytes_available(rbuf)
                >= receive_hdrlen(d) + receive_pktlen(d, chip.hdr)
    THEN [ret |-> 0,
          rbuf |-> ring_buf_add(rbuf, chip.hdr \o chip.payload),
          appended |-> chip.hdr \o chip.payload,
          fault |-> add_fault(rbuf, chip.hdr \o chip.payload)]
    ELSE [ret |-> 0, rbuf |-> rbuf, appended |-> <<>>, fault |-> "none"]

\* the tx bytes main() hands to receive_frame: the call passes the device and
\* the receive buffer only
handle_tx_arg == <<>>

\* the contiguous run a client write is offered: ring_buf_begin and
\* ring_buf_bytes_readable
write_offered(obj) ==
    [i \in 1..ring_buf_bytes_readable(obj) |-> obj.buf[ring_buf_begin(obj) + i - 1]]

\* the bytes taken out of the receive buffer after a client write of wlen
client_write_consume_all(obj, wlen) ==
    ring_buf_consume(obj, ring_buf_bytes_readable(obj))

client_write_consume(obj, wlen) == ring_buf_consume(obj, wlen)

RingIdle ==
    /\ rb = ring_buf_init(1, [i \in {0} |-> 0])
    /\ rb_pre = rb
    /\ rb_op = NoOp
    /\ rb_fault = "none"

DaemonInit ==
    /\ RingIdle
    /\ SparseIdle
    /\ ParserIdle
    /\ HexIdle
    /\ ArgIdle
    /\ DrvIdle
    /\ pc = "args"
    /\ retval = "EXIT_SUCCESS"
    /\ exit_status = "none"
    /\ exit_cause = "none"
    /\ open_fds = {}
    /\ sock_fd = -1
    /\ sock_file \in BOOLEAN
    /\ client_fd = -1
    /\ conn_count = 0
    /\ dev = [txhdlen |-> 0, fixpklen |-> 0]
    /\ rx_data = ring_buf_init(RING_BUFFER_SIZE, [i \in 0..(RING_BUFFER_SIZE - 1) |-> 0])
    /\ terminate = 0
    /\ sig_pending = FALSE
    /\ sel = NoSel
    /\ iter_log = <<>>
    /\ undelivered = <<>>
    /\ wr = NoWrite
    /\ rd_data = <<>>
    /\ handle_ret = 0
    /\ daemon_fault = "none"

\* exit(status) called from main before any descriptor is open
Exit(status, cause) ==
    /\ pc' = "exited"
    /\ exit_status' = status
    /\ exit_cause' = cause

ArgFailures == {"usage", "sock_path", "extra", "no_cfg", "cfg"}

\* argument parsing and the configuration file
ParseArgs ==
    /\ pc = "args"
    /\ \/ Exit("EXIT_SUCCESS", "help")
       \/ \E why \in ArgFailures : Exit("EXIT_FAILURE", why)
       \/ pc' = "signals" /\ UNCHANGED <<exit_status, exit_cause>>
    /\ UNCHANGED <<retval, open_fds, sock_fd, sock_file, client_fd, conn_count, dev,
                   rx_data, terminate, sig_pending, sel, iter_log,
                   undelivered, wr, rd_data, handle_ret, daemon_fault>>
    /\ UNCHANGED <<ringVars, sparseVars, parserVars, hexVars, argVars, drvVars>>

\* the signal mask and the handlers
SetupSignals ==
    /\ pc = "signals"
    /\ \/ Exit("EXIT_FAILURE", "sigprocmask")
       \/ /\ pc' = "socket"
          /\ UNCHANGED <<exit_status, exit_cause>>
    /\ UNCHANGED <<retval, open_fds, sock_fd, sock_file, client_fd, conn_count, dev,
                   rx_data, terminate, sig_pending, sel, iter_log,
                   undelivered, wr, rd_data, handle_ret, daemon_fault>>
    /\ UNCHANGED <<ringVars, sparseVars, parserVars, hexVars, argVars, drvVars>>

\* the server socket: socket, unlink, bind, listen, chmod
SetupSocket ==
    /\ pc = "socket"
    /\ \/ /\ retval' = "EXIT_FAILURE"
          /\ exit_cause' = "socket"
          /\ pc' = "cleanup2"
          /\ UNCHANGED <<open_fds, sock_fd, sock_file>>
       \/ /\ retval' = "EXIT_FAILURE"
          /\ exit_cause' = "bind"
          /\ pc' = "cleanup2"
          /\ open_fds' = open_fds \cup {SockFd}
          /\ sock_fd' = 0
          /\ sock_file' = FALSE
       \/ /\ retval' = "EXIT_FAILURE"
          /\ exit_cause' \in {"listen", "chmod"}
          /\ pc' = "cleanup2"
          /\ open_fds' = open_fds \cup {SockFd}
          /\ sock_fd' = 0
          /\ sock_file' = TRUE
       \/ /\ pc' = "open"
          /\ open_fds' = open_fds \cup {SockFd}
          /\ sock_fd' = 0
          /\ sock_file' = TRUE
          /\ UNCHANGED <<retval, exit_cause>>
    /\ UNCHANGED <<exit_status, client_fd, conn_count, dev, rx_data, terminate,
                   sig_pending, sel, iter_log, undelivered, wr, rd_data, handle_ret, daemon_fault>>
    /\ UNCHANGED <<ringVars, sparseVars, parserVars, hexVars, argVars, drvVars>>

\* si443x_open
OpenDevice ==
    /\ pc = "open"
    /\ \/ /\ exit_cause' = "open"
          /\ pc' = "cleanup2"
          /\ UNCHANGED open_fds
       \/ /\ pc' = "init"
          /\ open_fds' = open_fds \cup {DevFd}
          /\ UNCHANGED exit_cause
    /\ UNCHANGED <<retval, exit_status, sock_fd, sock_file, client_fd, conn_count, dev,
                   rx_data, terminate, sig_pending, sel, iter_log,
                   undelivered, wr, rd_data, handle_ret, daemon_fault>>
    /\ UNCHANGED <<ringVars, sparseVars, parserVars, hexVars, argVars, drvVars>>

\* initialize_receiver; the chip's framing is what the configuration made it
InitReceiver ==
    /\ pc = "init"
    /\ \/ /\ exit_cause' = "init"
          /\ pc' = "cleanup2"
          /\ UNCHANGED dev
       \/ /\ pc' = "select"
          /\ \E h \in 0..MaxHdLen, f \in 0..MaxPktLen :
                dev' = [txhdlen |-> h, fixpklen |-> f]
          /\ UNCHANGED exit_cause
    /\ UNCHANGED <<retval, exit_status, open_fds, sock_fd, sock_file, client_fd,
                   conn_count, rx_data, terminate, sig_pending, sel,
                   iter_log, undelivered, wr, rd_data, handle_ret,
                   daemon_fault>>
    /\ UNCHANGED <<ringVars, sparseVars, parserVars, hexVars, argVars, drvVars>>

\* a termination signal is sent to the process; the signals are blocked, it
\* stays pending
SignalArrives ==
    /\ pc \in {"socket", "open", "init", "select", "check", "service", "write",
               "handle", "close_dev", "cleanup2"}
    /\ ~sig_pending
    /\ sig_pending' = TRUE
    /\ UNCHANGED <<pc, retval, exit_status, exit_cause, open_fds, sock_fd, sock_file,
                   client_fd, conn_count, dev, rx_data, terminate, sel,
                   iter_log, undelivered, wr, rd_data, handle_ret,
                   daemon_fault>>
    /\ UNCHANGED <<ringVars, sparseVars, parserVars, hexVars, argVars, drvVars>>

\* the descriptor sets one pselect call can report ready, given what is watched
ReadySets ==
    {[r |-> (IF s THEN 1 ELSE 0) + (IF c THEN 1 ELSE 0) + (IF w THEN 1 ELSE 0),
      eintr |-> FALSE, rd_sock |-> s, rd_client |-> c, wr_client |-> w] :
        s \in {FALSE} \cup {x \in {TRUE} : conn_count < MaxConns},
        c \in {FALSE} \cup {x \in {TRUE} : client_fd # -1},
        w \in {FALSE} \cup {x \in {TRUE} : client_fd # -1 /\ ~ring_buf_empty(rx_data)}}

\* the top of the loop and the pselect call: a failure, a delivered
\* termination signal, another interruption, or ready descriptors (none of
\* them when the timeout ran out); the signals are unblocked only
\* while it waits, so terminate_cb runs here or never, and a pending signal
\* is delivered as soon as the empty mask is installed. The result of the
\* previous receive_frame call, which nothing kept, is gone by now.
Pselect ==
    /\ pc = "select"
    /\ pc' = "check"
    /\ \/ /\ sel' = [NoSel EXCEPT !.r = -1]
          /\ UNCHANGED <<terminate, sig_pending>>
       \/ /\ sig_pending
          /\ terminate' = 1
          /\ sig_pending' = FALSE
          /\ sel' = [NoSel EXCEPT !.r = -1, !.eintr = TRUE]
       \/ /\ ~sig_pending
          /\ sel' = [NoSel EXCEPT !.r = -1, !.eintr = TRUE]
          /\ UNCHANGED <<terminate, sig_pending>>
       \/ /\ ~sig_pending
          /\ sel' \in ReadySets
          /\ UNCHANGED <<terminate, sig_pending>>
    /\ handle_ret' = 0
    /\ UNCHANGED <<retval, exit_status, exit_cause, open_fds, sock_fd, sock_file,
                   client_fd, conn_count, dev, rx_data, iter_log, undelivered, wr,
                   rd_data, daemon_fault>>
    /\ UNCHANGED <<ringVars, sparseVars, parserVars, hexVars, argVars, drvVars>>

\* a variant of CheckWake that does not look at the terminate flag
CheckWakeNoFlag ==
    /\ pc = "check"
    /\ \/ /\ sel.r = -1 /\ ~sel.eintr
          /\ pc' = "close_dev"
          /\ exit_cause' = "pselect"
       \/ /\ ~(sel.r = -1 /\ ~sel.eintr)
          /\ pc' = "service"
          /\ UNCHANGED exit_cause
    /\ UNCHANGED <<retval, exit_status, open_fds, sock_fd, sock_file, client_fd,
                   conn_count, dev, rx_data, terminate, sig_pending, sel,
                   iter_log, undelivered, wr, rd_data, handle_ret,
                   daemon_fault>>
    /\ UNCHANGED <<ringVars, sparseVars, parserVars, hexVars, argVars, drvVars>>

\* the two checks after pselect
CheckWake ==
    /\ pc = "check"
    /\ \/ /\ sel.r = -1 /\ ~sel.eintr
          /\ pc' = "close_dev"
          /\ exit_cause' = "pselect"
       \/ /\ ~(sel.r = -1 /\ ~sel.eintr)
          /\ terminate # 0
          /\ pc' = "close_dev"
          /\ exit_cause' = "signal"
       \/ /\ ~(sel.r = -1 /\ ~sel.eintr)
          /\ terminate = 0
          /\ pc' = "service"
          /\ UNCHANGED exit_cause
    /\ UNCHANGED <<retval, exit_status, open_fds, sock_fd, sock_file, client_fd,
                   conn_count, dev, rx_data, terminate, sig_pending, sel,
                   iter_log, undelivered, wr, rd_data, handle_ret,
                   daemon_fault>>
    /\ UNCHANGED <<ringVars, sparseVars, parserVars, hexVars, argVars, drvVars>>

\* nothing to service: r <= 0
ServiceNone ==
    /\ pc = "service"
    /\ sel.r <= 0
    /\ pc' = "handle"
    /\ UNCHANGED <<retval, exit_status, exit_cause, open_fds, sock_fd, sock_file,
                   client_fd, conn_count, dev, rx_data, terminate, sig_pending,
                   sel, iter_log, undelivered, wr,
                   rd_data, handle_ret, daemon_fault>>
    /\ UNCHANGED <<ringVars, sparseVars, parserVars, hexVars, argVars, drvVars>>

\* the log of closing the previous client, if there is one
CloseOldLog == IF client_fd # -1 THEN <<<<"close", client_fd>>>> ELSE <<>>

\* a variant of ServiceAccept that leaves the previous client open
ServiceAcceptKeepOld ==
    /\ pc = "service"
    /\ sel.r > 0
    /\ sel.rd_sock
    /\ \/ /\ client_fd' = -1
          /\ iter_log' = <<>>
          /\ pc' = "select"
          /\ UNCHANGED <<conn_count, rx_data, open_fds>>
       \/ /\ client_fd' = conn_count + 1
          /\ conn_count' = conn_count + 1
          /\ open_fds' = open_fds \cup {ClientFd(conn_count + 1)}
          /\ rx_data' = ring_buf_clear(rx_data)
          /\ iter_log' = iter_log
                            \o <<<<"accept", conn_count + 1>>,
                                 <<"clear", ring_buf_bytes_used(rx_data)>>>>
          /\ pc' = "handle"
    /\ undelivered' = <<>>
    /\ sel' = IF pc' = "select" THEN NoSel ELSE sel
    /\ UNCHANGED <<retval, exit_status, exit_cause, sock_fd, sock_file, dev, terminate,
                   sig_pending, wr, rd_data, handle_ret, daemon_fault>>
    /\ UNCHANGED <<ringVars, sparseVars, parserVars, hexVars, argVars, drvVars>>

\* a connection is pending on the server socket: the previous client is
\* closed, the new one accepted and the receive buffer cleared
ServiceAccept ==
    /\ pc = "service"
    /\ sel.r > 0
    /\ sel.rd_sock
    /\ \/ /\ client_fd' = -1
          /\ open_fds' = open_fds \ {ClientFd(client_fd)}
          /\ iter_log' = <<>>
          /\ pc' = "select"
          /\ UNCHANGED <<conn_count, rx_data>>
       \/ /\ client_fd' = conn_count + 1
          /\ conn_count' = conn_count + 1
          /\ open_fds' = (open_fds \ {ClientFd(client_fd)})
                            \cup {ClientFd(conn_count + 1)}
          /\ rx_data' = ring_buf_clear(rx_data)
          /\ iter_log' = iter_log \o CloseOldLog
                            \o <<<<"accept", conn_count + 1>>,
                                 <<"clear", ring_buf_bytes_used(rx_data)>>>>
          /\ pc' = "handle"
    /\ undelivered' = <<>>
    /\ sel' = IF pc' = "select" THEN NoSel ELSE sel
    /\ UNCHANGED <<retval, exit_status, exit_cause, sock_fd, sock_file, dev, terminate,
                   sig_pending, wr, rd_data, handle_ret, daemon_fault>>
    /\ UNCHANGED <<ringVars, sparseVars, parserVars, hexVars, argVars, drvVars>>

\* a variant of ServiceClientRead that leaves the loop when the read returns
\* 0 or -1
ServiceClientReadFatal ==
    /\ pc = "service"
    /\ sel.r > 0
    /\ ~sel.rd_sock
    /\ client_fd # -1
    /\ \/ /\ ~sel.rd_client
          /\ pc' = "write"
          /\ UNCHANGED <<open_fds, client_fd, iter_log, undelivered, rd_data>>
       \/ /\ sel.rd_client
          /\ iter_log' = <<>>
          /\ open_fds' = open_fds \ {ClientFd(client_fd)}
          /\ client_fd' = -1
          /\ undelivered' = <<>>
          /\ pc' = "close_dev"
          /\ UNCHANGED rd_data
       \/ /\ sel.rd_client
          /\ \E data \in SeqsUpTo(Byte, MaxRead) :
                /\ Len(data) > 0
                /\ rd_data' = data
          /\ iter_log' = iter_log \o <<<<"read", client_fd>>>>
          /\ pc' = "write"
          /\ UNCHANGED <<open_fds, client_fd, undelivered>>
    /\ sel' = IF pc' = "select" THEN NoSel ELSE sel
    /\ UNCHANGED <<retval, exit_status, exit_cause, sock_fd, sock_file, conn_count, dev,
                   rx_data, terminate, sig_pending, wr, handle_ret, daemon_fault>>
    /\ UNCHANGED <<ringVars, sparseVars, parserVars, hexVars, argVars, drvVars>>

\* the client socket is readable: read into rdbuf; the bytes are dropped.
\* A read of 0 or -1 closes the client and restarts the loop.
ServiceClientRead ==
    /\ pc = "service"
    /\ sel.r > 0
    /\ ~sel.rd_sock
    /\ client_fd # -1
    /\ \/ /\ ~sel.rd_client
          /\ pc' = "write"
          /\ UNCHANGED <<open_fds, client_fd, iter_log, undelivered, rd_data>>
       \/ /\ sel.rd_client
          /\ iter_log' = <<>>
          /\ open_fds' = open_fds \ {ClientFd(client_fd)}
          /\ client_fd' = -1
          /\ undelivered' = <<>>
          /\ pc' = "select"
          /\ UNCHANGED rd_data
       \/ /\ sel.rd_client
          /\ \E data \in SeqsUpTo(Byte, MaxRead) :
                /\ Len(data) > 0
                /\ rd_data' = data
          /\ iter_log' = iter_log \o <<<<"read", client_fd>>>>
          /\ pc' = "write"
          /\ UNCHANGED <<open_fds, client_fd, undelivered>>
    /\ sel' = IF pc' = "select" THEN NoSel ELSE sel
    /\ UNCHANGED <<retval, exit_status, exit_cause, sock_fd, sock_file, conn_count, dev,
                   rx_data, terminate, sig_pending, wr, handle_ret, daemon_fault>>
    /\ UNCHANGED <<ringVars, sparseVars, parserVars, hexVars, argVars, drvVars>>

\* the client socket is writable: write the readable run, consume what the
\* OS accepted
ServiceClientWrite ==
    /\ pc = "write"
    /\ \/ /\ ~sel.wr_client
          /\ pc' = "handle"
          /\ UNCHANGED <<open_fds, client_fd, rx_data, iter_log, undelivered, wr,
                         daemon_fault>>
       \/ /\ sel.wr_client
          /\ wr' = NoWrite
          /\ iter_log' = <<>>
          /\ open_fds' = open_fds \ {ClientFd(client_fd)}
          /\ client_fd' = -1
          /\ undelivered' = <<>>
          /\ pc' = "select"
          /\ UNCHANGED <<rx_data, daemon_fault>>
       \/ /\ sel.wr_client
          /\ \E wlen \in 0..ring_buf_bytes_readable(rx_data) :
                /\ wr' = [done |-> TRUE, offered |-> write_offered(rx_data),
                          wlen |-> wlen, expect |-> undelivered]
                /\ rx_data' = client_write_consume(rx_data, wlen)
                /\ daemon_fault' = IF consume_assert(rx_data, wlen)
                                   THEN daemon_fault ELSE "assert"
                /\ undelivered' = SubSeq(undelivered, wlen + 1, Len(undelivered))
          /\ iter_log' = iter_log \o <<<<"write", client_fd>>>>
          /\ pc' = "handle"
          /\ UNCHANGED <<open_fds, client_fd>>
    /\ sel' = IF pc' = "select" THEN NoSel ELSE sel
    /\ UNCHANGED <<retval, exit_status, exit_cause, sock_fd, sock_file, conn_count, dev,
                   terminate, sig_pending, rd_data, handle_ret>>
    /\ UNCHANGED <<ringVars, sparseVars, parserVars, hexVars, argVars, drvVars>>

\* the receive_frame call that ends an iteration; its result is not looked at
ReceiveFrame ==
    /\ pc = "handle"
    /\ \E chip \in ChipReads(dev) :
          /\ LET res == receive_frame(dev, rx_data, chip)
             IN  /\ rx_data' = res.rbuf
                 /\ handle_ret' = res.ret
                 /\ undelivered' = IF client_fd # -1
                                   THEN undelivered \o res.appended
                                   ELSE <<>>
                 /\ daemon_fault' = IF res.fault = "none"
                                    THEN daemon_fault ELSE res.fault
    /\ iter_log' = <<>>
    /\ wr' = NoWrite
    /\ rd_data' = <<>>
    /\ sel' = NoSel
    /\ pc' = "select"
    /\ UNCHANGED <<retval, exit_status, exit_cause, open_fds, sock_fd, sock_file,
                   client_fd, conn_count, dev, terminate, sig_pending>>
    /\ UNCHANGED <<ringVars, sparseVars, parserVars, hexVars, argVars, drvVars>>

\* si443x_close after the loop
CloseDevice ==
    /\ pc = "close_dev"
    /\ open_fds' = open_fds \ {DevFd}
    /\ pc' = "cleanup2"
    /\ UNCHANGED <<retval, exit_status, exit_cause, sock_fd, sock_file, client_fd,
                   conn_count, dev, rx_data, terminate, sig_pending, sel,
                   iter_log, undelivered, wr, rd_data, handle_ret,
                   daemon_fault>>
    /\ UNCHANGED <<ringVars, sparseVars, parserVars, hexVars, argVars, drvVars>>

\* cleanup2: close the client and the server socket, unlink, return retval
Cleanup2 ==
    /\ pc = "cleanup2"
    /\ open_fds' = (open_fds \ (IF client_fd # -1 THEN {ClientFd(client_fd)} ELSE {}))
                       \ (IF sock_fd # -1 THEN {SockFd} ELSE {})
    /\ sock_file' = IF sock_fd # -1 THEN FALSE ELSE sock_file
    /\ pc' = "exited"
    /\ exit_status' = retval
    /\ UNCHANGED <<retval, exit_cause, sock_fd, client_fd, conn_count, dev, rx_data,
                   terminate, sig_pending, sel, iter_log, undelivered, wr, rd_data, handle_ret, daemon_fault>>
    /\ UNCHANGED <<ringVars, sparseVars, parserVars, hexVars, argVars, drvVars>>

\* the steps of the process itself
DaemonStep ==
    \/ ParseArgs
    \/ SetupSignals
    \/ SetupSocket
    \/ OpenDevice
    \/ InitReceiver
    \/ Pselect
    \/ CheckWake
    \/ ServiceNone
    \/ ServiceAccept
    \/ ServiceClientRead
    \/ ServiceClientWrite
    \/ ReceiveFrame
    \/ CloseDevice
    \/ Cleanup2

DaemonNext == DaemonStep \/ SignalArrives

SpecDaemon == DaemonInit /\ [][DaemonNext]_vars

\* a running process takes its next step: pselect returns within its timeout
\* and receive_frame returns
FairDaemon == DaemonInit /\ [][DaemonNext]_vars /\ WF_vars(DaemonStep)

----------------------------------------------------------------------------
(* The daemon's claims *)

\* the kinds of event the current iteration has logged
LogKinds == {iter_log[i][1] : i \in DOMAIN iter_log}

\* C4: client preemption. At most one client connection is open at any point
\* of the loop, and it is the one client_fd names; in an iteration that
\* accepts a connection the old client is closed before the accept, the
\* receive buffer is emptied right after it, and nothing is read from or
\* written to a client in that iteration.
C4_ClientPreemption ==
    /\ Cardinality(open_conns) <= 1
    /\ pc # "exited" => open_conns = (IF client_fd = -1 THEN {} ELSE {client_fd})
    /\ \A i \in DOMAIN iter_log :
          iter_log[i][1] = "accept" =>
             /\ LogKinds \cap {"read", "write"} = {}
             /\ iter_log[i][2] = client_fd
             /\ \A j \in DOMAIN iter_log :
                   iter_log[j][1] = "close" =>
                      j < i /\ iter_log[j][2] \notin open_conns
             /\ i < Len(iter_log)
             /\ iter_log[i + 1][1] = "clear"
             /\ ring_buf_empty(rx_data)
             /\ undelivered = <<>>

\* a second client was accepted while the first was connected with bytes
\* queued for it
C4_Witness ==
    /\ pc = "handle"
    /\ Len(iter_log) = 3
    /\ iter_log[1] = <<"close", 1>>
    /\ iter_log[2] = <<"accept", 2>>
    /\ iter_log[3][1] = "clear"
    /\ iter_log[3][2] > 0

\* C5: client-to-radio data path. The bytes read from the client socket in an
\* iteration are the transmit bytes offered to the handle call that ends it.
C5_ClientBytesReachHandle ==
    (pc = "handle" /\ rd_data # <<>>) => handle_tx_arg = rd_data

\* C6: radio-to-client stream integrity. While a client is connected the
\* receive buffer holds exactly the bytes appended since it connected and
\* not yet accepted by a write; a write is offered the contiguous readable
\* run, which is a prefix of those bytes, exactly the accepted count is
\* consumed, and ring_buf_consume's assertion never fails.
C6_StreamIntegrity ==
    /\ daemon_fault = "none"
    /\ (client_fd # -1 /\ pc \in {"select", "check", "service", "write", "handle"})
          => Contents(rx_data) = undelivered
    /\ wr.done =>
          /\ wr.offered # <<>>
          /\ Len(wr.offered) <= Len(wr.expect)
          /\ wr.offered = FirstN(wr.expect, Len(wr.offered))
          /\ wr.wlen \in 0..Len(wr.offered)
          /\ undelivered = SubSeq(wr.expect, wr.wlen + 1, Len(wr.expect))
          /\ Contents(rx_data) = undelivered

\* a write of which the OS accepted a part only
C6_Witness ==
    /\ pc = "handle"
    /\ wr.done
    /\ wr.wlen > 0
    /\ wr.wlen < Len(wr.offered)

\* C7: the handle operation in every iteration. An iteration that goes back
\* to the top of the loop does so from the receive_frame call.
C7_HandleEveryIteration ==
    [][(pc \in {"service", "write", "handle"} /\ pc' = "select") => pc = "handle"]_vars

\* C8: handle-result dispatch. After a receive_frame call that did not return
\* 0 the loop is left or the client connection is closed.
C8_HandleResultDispatch ==
    [][(pc = "handle" /\ pc' # "handle" /\ handle_ret' # 0)
          => (pc' = "close_dev" \/ (client_fd # -1 /\ client_fd' = -1))]_vars

\* C9: exit status. The process exits with EXIT_SUCCESS exactly after -h or
\* after a termination signal; every fatal condition exits with EXIT_FAILURE.
C9_ExitStatus ==
    pc = "exited" =>
        /\ exit_status \in {"EXIT_SUCCESS", "EXIT_FAILURE"}
        /\ exit_status = "EXIT_SUCCESS" <=> exit_cause \in {"help", "signal"}

\* C10: signal-driven shutdown. The terminate flag changes only inside the
\* pselect call, where the handler sets it; once it is set nothing is
\* serviced and receive_frame is not called again; the shutdown that follows
\* closes the device, the client and the server socket and unlinks the
\* socket file; and a delivered signal leads to the exit of the process.
C10_SignalShutdown ==
    /\ [][terminate' # terminate => (pc = "select" /\ terminate' = 1)]_vars
    /\ [](terminate # 0 => pc \in {"check", "close_dev", "cleanup2", "exited"})
    /\ []((pc = "exited" /\ terminate # 0) =>
              (open_fds = {} /\ ~sock_file /\ exit_cause \in {"signal", "pselect"}))
    /\ (terminate # 0) ~> (pc = "exited")

\* the process has exited after a signal that arrived while a client was
\* connected
C10_Witness ==
    /\ pc = "exited"
    /\ terminate # 0
    /\ exit_cause = "signal"
    /\ client_fd # -1
    /\ open_fds = {}

----------------------------------------------------------------------------
(* sparse_buf.c, sparse_buf.h: the partial register buffer *)

\* SIZE_MAX of a size_t narrowed to 16 bits; no offset of the model gets near
SIZE_MAX == 2^16 - 1

SPARSE_BUF_OFF_END == SIZE_MAX

\* NULL, the result of sparse_buf_at outside the buffer
NULL == "NULL"

\* the bitmap word index and the mask 1 << (off % UINT_BIT_CNT) of an offset
valid_idx(off) == off \div UINT_BIT_CNT

valid_mask(off) == 2^(off % UINT_BIT_CNT)

\* word & mask and word | mask for a one-bit mask
word_and(word, mask) == IF (word \div mask) % 2 = 1 THEN mask ELSE 0

word_or(word, mask) == IF (word \div mask) % 2 = 1 THEN word ELSE word + mask

\* the number of bitmap words allocated and cleared
valid_words(size) == (size + UINT_BIT_CNT - 1) \div UINT_BIT_CNT

\* a variant of sparse_buf_make_valid that always sets the bit in word 0
sparse_buf_make_valid_word0(obj, off) ==
    IF off >= obj.size
    THEN obj
    ELSE [obj EXCEPT !.valid[0] = word_or(@, valid_mask(off))]

sparse_buf_make_valid(obj, off) ==
    IF off >= obj.size
    THEN obj
    ELSE [obj EXCEPT !.valid[valid_idx(off)] = word_or(@, valid_mask(off))]

\* sparse_buf_init: values is what malloc returned (mem), valid is zeroed
sparse_buf_init(size, mem) ==
    [size |-> size,
     valid |-> [w \in 0..(valid_words(size) - 1) |-> 0],
     values |-> mem]

\* a variant of sparse_buf_clear that zeroes the first bitmap word only
sparse_buf_clear_word0(obj) ==
    [obj EXCEPT !.valid = [w \in DOMAIN obj.valid |-> IF w = 0 THEN 0 ELSE obj.valid[w]]]

sparse_buf_clear(obj) ==
    [obj EXCEPT !.valid = [w \in 0..(valid_words(obj.size) - 1) |-> 0]]

\* sparse_buf_write: the return value and the buffer afterwards
sparse_buf_write(obj, off, val) ==
    IF off >= obj.size
    THEN [ret |-> -1, obj |-> obj]
    ELSE [ret |-> 0,
          obj |-> sparse_buf_make_valid([obj EXCEPT !.values[off] = val], off)]

\* sparse_buf_at: the byte the returned pointer points at, or NULL
sparse_buf_at(obj, off) == IF off >= obj.size THEN NULL ELSE obj.values[off]

sparse_buf_size(obj) == obj.size

sparse_buf_is_valid(obj, off) ==
    IF off < obj.size
    THEN word_and(obj.valid[valid_idx(off)], valid_mask(off)) # 0
    ELSE FALSE

\* the while loop of sparse_buf_next_valid goes up from off and returns at
\* the first valid offset it comes to: the least one at or after off
sparse_buf_next_valid(obj, off) ==
    LET hits == {x \in off..(obj.size - 1) : sparse_buf_is_valid(obj, x)}
    IN  IF hits = {} THEN SPARSE_BUF_OFF_END
        ELSE CHOOSE x \in hits : \A y \in hits : x <= y

\* and the loop of sparse_buf_next_invalid at the first invalid one
sparse_buf_next_invalid(obj, off) ==
    LET hits == {x \in off..(obj.size - 1) : ~sparse_buf_is_valid(obj, x)}
    IN  IF hits = {} THEN SPARSE_BUF_OFF_END
        ELSE CHOOSE x \in hits : \A y \in hits : x <= y

\* a variant of sparse_buf_valid_length that goes on counting after an
\* invalid offset
sparse_buf_valid_length_all(obj, off) ==
    Cardinality({x \in off..(obj.size - 1) : sparse_buf_is_valid(obj, x)})

\* the while loop of sparse_buf_valid_length counts the offsets it passes
\* until it comes to an invalid one or to the end of the buffer
sparse_buf_valid_length(obj, off) ==
    IF off < obj.size
    THEN LET stops == {x \in off..(obj.size - 1) : ~sparse_buf_is_valid(obj, x)}
                         \cup {obj.size}
         IN  (CHOOSE x \in stops : \A y \in stops : x <= y) - off
    ELSE 0

----------------------------------------------------------------------------
(* The sparse specification: one buffer, any sequence of calls *)

\* the offsets the calls are tried with: inside the buffer, at its size, past it
SparseOffsets == 0..(MaxSparseSize + 1)

\* sparse_buf_init succeeds, or an allocation fails and the object is unusable
SparseInit ==
    /\ RingIdle
    /\ DaemonIdle
    /\ ParserIdle
    /\ HexIdle
    /\ ArgIdle
    /\ DrvIdle
    /\ \/ /\ \E size \in 1..MaxSparseSize : \E mem \in [0..(size - 1) -> Byte] :
                sb = sparse_buf_init(size, mem)
          /\ sb_op = [name |-> "init", off |-> 0, val |-> 0, ret |-> 0]
       \/ /\ sb = NoSparse
          /\ sb_op = [name |-> "init", off |-> 0, val |-> 0, ret |-> -1]
    /\ sb_pre = sb
    /\ sb_written = [o \in 0..(sb.size - 1) |-> -1]

SparseWrite ==
    /\ sb # NoSparse
    /\ \E off \in SparseOffsets, val \in Byte :
          LET res == sparse_buf_write(sb, off, val)
          IN  /\ sb' = res.obj
              /\ sb_op' = [name |-> "write", off |-> off, val |-> val, ret |-> res.ret]
              /\ sb_written' = IF off < sb.size
                               THEN [sb_written EXCEPT ![off] = val]
                               ELSE sb_written
    /\ sb_pre' = sb
    /\ UNCHANGED <<ringVars, daemonVars, parserVars, hexVars, argVars, drvVars>>

SparseClear ==
    /\ sb # NoSparse
    /\ sb' = sparse_buf_clear(sb)
    /\ sb_pre' = sb
    /\ sb_op' = [name |-> "clear", off |-> 0, val |-> 0, ret |-> 0]
    /\ sb_written' = [o \in 0..(sb.size - 1) |-> -1]
    /\ UNCHANGED <<ringVars, daemonVars, parserVars, hexVars, argVars, drvVars>>

SparseNext == SparseWrite \/ SparseClear

SpecSparse == SparseInit /\ [][SparseNext]_vars

\* C11: sparse buffer round trip. An offset below size is valid exactly when
\* it was written since the last clear (or init), and then sparse_buf_at
\* yields the value written last; no offset at or past size is valid.
C11_SparseRoundTrip ==
    sb # NoSparse =>
        \A o \in SparseOffsets :
            IF o < sparse_buf_size(sb)
            THEN /\ sparse_buf_is_valid(sb, o) <=> (sb_written[o] # -1)
                 /\ sparse_buf_is_valid(sb, o) => sparse_buf_at(sb, o) = sb_written[o]
            ELSE ~sparse_buf_is_valid(sb, o)

\* a valid offset of the second bitmap word was written again with another
\* value while an offset of the first word is invalid
C11_Witness ==
    /\ sb_op.name = "write"
    /\ sb_op.ret = 0
    /\ sb_op.off >= UINT_BIT_CNT
    /\ sparse_buf_is_valid(sb_pre, sb_op.off)
    /\ sb_pre.values[sb_op.off] # sb_op.val
    /\ \E o \in 0..(UINT_BIT_CNT - 1) : o < sb.size /\ ~sparse_buf_is_valid(sb, o)

\* the smallest offset of a set of offsets
MinOf(S) == CHOOSE x \in S : \A y \in S : x <= y

C13_SparseWrite ==
    sb_op.name = "write" =>
        IF sb_op.off >= sb_pre.size
        THEN sb_op.ret = -1 /\ sb = sb_pre
        ELSE /\ sb_op.ret = 0
             /\ sb.size = sb_pre.size
             /\ sparse_buf_at(sb, sb_op.off) = sb_op.val
             /\ sparse_buf_is_valid(sb, sb_op.off)
             /\ \A o \in SparseOffsets \ {sb_op.off} :
                   /\ sparse_buf_at(sb, o) = sparse_buf_at(sb_pre, o)
                   /\ sparse_buf_is_valid(sb, o) <=> sparse_buf_is_valid(sb_pre, o)

\* a write at the buffer's size, into a buffer that holds valid offsets
C13_Witness ==
    /\ sb_op.name = "write"
    /\ sb_op.off = sb_pre.size
    /\ sb_op.ret = -1
    /\ \E o \in SparseOffsets : sparse_buf_is_valid(sb, o)

----------------------------------------------------------------------------
(* dehexify: the hex decoder.  Characters are their ASCII codes, a string  *)
(* is the sequence of the codes before its terminating NUL.                *)

\* the value of one hex digit, -1 for any other character
hex_value(c) ==
    IF c >= 48 /\ c <= 57 THEN c - 48
    ELSE IF c >= 65 /\ c <= 70 THEN c - 65 + 10
    ELSE IF c >= 97 /\ c <= 102 THEN c - 97 + 10
    ELSE -1

\* a variant of dehexify that rejects a non-digit anywhere in the input
dehexify_whole_input(in, n) ==
    IF Len(in) < 2 * n \/ \E i \in 1..Len(in) : hex_value(in[i]) = -1
    THEN [ret |-> -1, out |-> <<>>]
    ELSE [ret |-> 0,
          out |-> [i \in 1..n |-> 16 * hex_value(in[2 * i - 1]) + hex_value(in[2 * i])]]

\* dehexify(in, n, out): the return value and the n bytes written.  The
\* terminating NUL of a short input is met inside the span and is no digit.
dehexify(in, n) ==
    IF Len(in) < 2 * n \/ \E i \in 1..(2 * n) : hex_value(in[i]) = -1
    THEN [ret |-> -1, out |-> <<>>]
    ELSE [ret |-> 0,
          out |-> [i \in 1..n |-> 16 * hex_value(in[2 * i - 1]) + hex_value(in[2 * i])]]

----------------------------------------------------------------------------
(* The decoder specification: one call on a drawn string *)

\* the characters the inputs are drawn from: the ends of the three digit
\* ranges and their neighbours  / 0 9 : @ A F G ` a f g
HexAlphabet == {47, 48, 57, 58, 64, 65, 70, 71, 96, 97, 102, 103}

HexInit ==
    /\ RingIdle
    /\ DaemonIdle
    /\ SparseIdle
    /\ ParserIdle
    /\ ArgIdle
    /\ DrvIdle
    /\ hx_in \in SeqsUpTo(HexAlphabet, MaxHexLen)
    /\ hx_n \in 0..MaxHexBytes
    /\ hx_res = NoHexRes

HexDecode ==
    /\ hx_res = NoHexRes
    /\ LET res == dehexify(hx_in, hx_n)
       IN  hx_res' = [done |-> TRUE, ret |-> res.ret, out |-> res.out]
    /\ UNCHANGED <<hx_in, hx_n>>
    /\ UNCHANGED <<ringVars, daemonVars, sparseVars, parserVars, argVars, drvVars>>

HexNext == HexDecode

SpecHex == HexInit /\ [][HexNext]_vars

\* the sixteen digits in order, upper and lower case
DigitsUpper == <<48, 49, 50, 51, 52, 53, 54, 55, 56, 57, 65, 66, 67, 68, 69, 70>>

DigitsLower == <<48, 49, 50, 51, 52, 53, 54, 55, 56, 57, 97, 98, 99, 100, 101, 102>>

IsHexDigit(c) == \E k \in 1..16 : DigitsUpper[k] = c \/ DigitsLower[k] = c

DigitValue(c) == (CHOOSE k \in 1..16 : DigitsUpper[k] = c \/ DigitsLower[k] = c) - 1

\* C20: hex decoder rejection. dehexify fails exactly when the input has
\* fewer than 2n characters or one of its first 2n characters is no hex
\* digit; what follows the first 2n characters has no influence; on success
\* byte i is 16 * digit(2i) + digit(2i+1), counting from 0.
C20_HexDecoder ==
    hx_res.done =>
        LET span == 1..(2 * hx_n)
            ok == Len(hx_in) >= 2 * hx_n /\ \A i \in span : IsHexDigit(hx_in[i])
        IN  /\ hx_res.ret = (IF ok THEN 0 ELSE -1)
            /\ ok => /\ Len(hx_res.out) = hx_n
                     /\ \A i \in 0..(hx_n - 1) :
                           hx_res.out[i + 1] = 16 * DigitValue(hx_in[2 * i + 1])
                                                  + DigitValue(hx_in[2 * i + 2])

\* one byte decoded from "Fa" with two characters that are no digits after it
C20_Witness ==
    /\ hx_res.done
    /\ hx_n = 1
    /\ hx_in = <<70, 97, 71, 47>>
    /\ hx_res.ret = 0
    /\ hx_res.out = <<250>>

----------------------------------------------------------------------------
(* parse_reg_file.c: the configuration file parser *)

\* ' ', '\t' and '\n'
CH_SP == 32
CH_TAB == 9
CH_NL == 10

\* the size main() and the tests give the register buffer
REGS_SIZE == 128

\* fgets(buf, n, fp) on the unread rest of the file: the characters stored,
\* what is left unread, and whether the end-of-file indicator got set.  It
\* stops after a newline or after n - 1 characters; the indicator is set only
\* when a read ran into the end of the file.
fgets(stream, n) ==
    LET nl == {k \in 1..Min(n - 1, Len(stream)) : stream[k] = CH_NL}
        take == IF nl # {}
                THEN CHOOSE k \in nl : \A j \in nl : k <= j
                ELSE Min(n - 1, Len(stream))
    IN  [line |-> SubSeq(stream, 1, take),
         rest |-> SubSeq(stream, take + 1, Len(stream)),
         eof |-> nl = {} /\ Len(stream) < n - 1]

\* the line-too-long test on what fgets stored
line_too_long(buf, eof) == buf[Len(buf)] # CH_NL /\ ~eof

\* strip trailing white space and the newline
RECURSIVE strip_trailing(_)
strip_trailing(buf) ==
    IF Len(buf) > 0 /\ buf[Len(buf)] \in {CH_SP, CH_TAB, CH_NL}
    THEN strip_trailing(SubSeq(buf, 1, Len(buf) - 1))
    ELSE buf

\* a variant of strip_leading that skips spaces only
RECURSIVE strip_leading_sp(_)
strip_leading_sp(buf) ==
    IF Len(buf) > 0 /\ buf[1] = CH_SP
    THEN strip_leading_sp(Tail(buf))
    ELSE buf

\* strip leading white space
RECURSIVE strip_leading(_)
strip_leading(buf) ==
    IF Len(buf) > 0 /\ buf[1] \in {CH_SP, CH_TAB}
    THEN strip_leading(Tail(buf))
    ELSE buf

\* the WDS branch: "" or the error, and bin[0], bin[1]
parse_wds(bp) ==
    LET r == dehexify(SubSeq(bp, 4, Len(bp)), 2)
    IN  IF Len(bp) # 7 THEN [err |-> "wds_length", bin |-> <<>>]
        ELSE IF bp[2] # 50 \/ bp[3] # CH_SP THEN [err |-> "wds_format", bin |-> <<>>]
        ELSE IF r.ret # 0 THEN [err |-> "hex", bin |-> <<>>]
        ELSE IF r.out[1] \div 128 = 0 THEN [err |-> "msb", bin |-> <<>>]
        ELSE [err |-> "", bin |-> r.out]

\* the addr,value branch
parse_addr_val(bp) ==
    LET ra == dehexify(bp, 1)
        rv == dehexify(SubSeq(bp, 4, Len(bp)), 1)
    IN  IF Len(bp) # 5 THEN [err |-> "length", bin |-> <<>>]
        ELSE IF bp[3] # CH_SP THEN [err |-> "separator", bin |-> <<>>]
        ELSE IF ra.ret # 0 THEN [err |-> "hex", bin |-> <<>>]
        ELSE IF rv.ret # 0 THEN [err |-> "hex", bin |-> <<>>]
        ELSE IF ra.out[1] \div 128 # 0 THEN [err |-> "msb", bin |-> <<>>]
        ELSE [err |-> "", bin |-> <<ra.out[1], rv.out[1]>>]

\* a variant of reg_addr that keeps the most significant bit
reg_addr_raw(b) == b

\* addr = bin[0] & 0x7F
reg_addr(b) == b % 128

\* a variant of reg_addr_illegal that lets every address through
reg_addr_any(addr) == FALSE

\* the reserved FIFO address
reg_addr_illegal(addr) == addr = 127

\* one pass of the loop body on what fgets stored: "" or the error, and the
\* register buffer afterwards
parse_line(buf, eof, regs) ==
    LET bp == strip_leading(strip_trailing(buf))
        d == IF bp[1] \in {83, 115} THEN parse_wds(bp) ELSE parse_addr_val(bp)
        addr == reg_addr(d.bin[1])
        w == sparse_buf_write(regs, addr, d.bin[2])
    IN  IF line_too_long(buf, eof) THEN [err |-> "too_long", regs |-> regs]
        ELSE IF Len(bp) = 0 THEN [err |-> "", regs |-> regs]
        ELSE IF d.err # "" THEN [err |-> d.err, regs |-> regs]
        ELSE IF reg_addr_illegal(addr) THEN [err |-> "addr_7f", regs |-> regs]
        ELSE IF w.ret # 0 THEN [err |-> "write", regs |-> regs]
        ELSE [err |-> "", regs |-> w.obj]

\* the fgets loop from line line_nr + 1 on
RECURSIVE parse_lines(_, _, _)
parse_lines(stream, regs, line_nr) ==
    IF stream = <<>>
    THEN [ret |-> 0, err |-> "", line_nr |-> line_nr, regs |-> regs]
    ELSE LET g == fgets(stream, LineBufSize)
             l == parse_line(g.line, g.eof, regs)
         IN  IF l.err # ""
             THEN [ret |-> -1, err |-> l.err, line_nr |-> line_nr + 1, regs |-> l.regs]
             ELSE parse_lines(g.rest, l.regs, line_nr + 1)

\* parse_reg_file on a file that opens and reads without error
parse_reg_file(file, regs) == parse_lines(file, sparse_buf_clear(regs), 0)

\* a byte as a configuration file writes it: two upper-case, or two
\* lower-case, hexadecimal characters
hex_chars(b) == <<DigitsUpper[(b \div 16) + 1], DigitsUpper[(b % 16) + 1]>>

hex_chars_lc(b) == <<DigitsLower[(b \div 16) + 1], DigitsLower[(b % 16) + 1]>>

\* the line of a register entry <<address, value>> in the addr,value form,
\* with a space and with a tab, and in the WDS form
plain_line(e) == hex_chars(e[1]) \o <<CH_SP>> \o hex_chars(e[2])

plain_line_tab(e) == hex_chars(e[1]) \o <<CH_TAB>> \o hex_chars(e[2])

wds_line(e) == <<83, 50, CH_SP>> \o hex_chars(128 + e[1]) \o hex_chars(e[2])

wds_line_lc(e) == <<115, 50, CH_SP>> \o hex_chars_lc(128 + e[1]) \o hex_chars_lc(e[2])

Blanks(n) == [i \in 1..n |-> CH_SP]

pad_to(line, n) == line \o Blanks(n - Len(line))

\* register entries: the first and the last addresses, the reserved one, and
\* one address with two values
CfgEntries == {<<0, 17>>, <<0, 45>>, <<1, 34>>, <<126, 45>>, <<127, 17>>}

\* well-formed lines as the documentation and the tests write them
DirectiveLines ==
    {plain_line(e) : e \in CfgEntries}
    \cup {wds_line(e) : e \in CfgEntries}
    \cup {wds_line_lc(e) : e \in {<<1, 34>>, <<126, 45>>}}
    \cup {plain_line_tab(<<54, 45>>), hex_chars_lc(126) \o <<CH_SP>> \o hex_chars_lc(45)}

\* lines that break one rule of the format each
MalformedLines ==
    { <<48, 71, 32, 49, 49>>,           \* 0G 11
      <<48, 48, 32, 49, 103>>,          \* 00 1g
      <<48, 48, 48, 32, 49, 49>>,       \* 000 11
      <<48, 48, 32, 49>>,               \* 00 1
      <<48, 48, 58, 49, 49>>,           \* 00:11
      plain_line(<<128, 17>>),          \* 80 11
      <<83, 50, 32, 48, 48, 49, 49>>,   \* S2 0011
      <<83, 51, 32, 56, 48, 49, 49>>,   \* S3 8011
      <<83, 50, 9, 56, 48, 49, 49>>,    \* S2<tab>8011
      <<83, 50, 32, 56, 48, 49, 71>>,   \* S2 801G
      <<83, 50, 32, 56, 48, 49, 49, 49>>, \* S2 80111
      <<83>> }                          \* S

\* lines with white space around a directive, up to and past the length of
\* the line buffer
DecoratedLines ==
    { <<CH_SP>> \o plain_line(<<1, 34>>),
      <<CH_TAB>> \o plain_line(<<1, 34>>),
      plain_line(<<1, 34>>) \o <<CH_TAB>>,
      <<CH_SP>> \o wds_line(<<0, 17>>),
      wds_line(<<0, 17>>) \o <<CH_TAB>>,
      pad_to(plain_line(<<0, 45>>), LineBufSize - 2),
      pad_to(plain_line(<<0, 45>>), LineBufSize - 1),
      pad_to(plain_line(<<0, 45>>), LineBufSize) }

\* lines of white space only
BlankLines ==
    { <<>>, <<CH_SP>>, <<CH_TAB, CH_SP>>,
      Blanks(LineBufSize - 2), Blanks(LineBufSize - 1), Blanks(LineBufSize) }

CfgLines == DirectiveLines \cup MalformedLines \cup DecoratedLines \cup BlankLines

\* the bytes of the file with these lines; the last line ends with a newline
\* when term is set
RECURSIVE cfg_file(_, _)
cfg_file(ls, term) ==
    IF ls = <<>> THEN <<>>
    ELSE IF Len(ls) = 1 THEN ls[1] \o (IF term THEN <<CH_NL>> ELSE <<>>)
    ELSE ls[1] \o <<CH_NL>> \o cfg_file(Tail(ls), term)

\* register buffers as the caller may hand them in: freshly initialised, and
\* holding registers of an earlier configuration
FreshRegs == sparse_buf_init(REGS_SIZE, [o \in 0..(REGS_SIZE - 1) |-> 0])

StaleRegs == sparse_buf_write(sparse_buf_write(FreshRegs, 1, 85).obj, 127, 85).obj

PriorRegs == {FreshRegs, StaleRegs}

ParserInit ==
    /\ RingIdle
    /\ DaemonIdle
    /\ SparseIdle
    /\ HexIdle
    /\ ArgIdle
    /\ DrvIdle
    /\ \E ls \in SeqsUpTo(CfgLines, MaxCfgLines), term \in BOOLEAN :
          pf_file = cfg_file(ls, term)
    /\ pf_regs \in PriorRegs
    /\ pf_pre = pf_regs
    /\ pf_ret = NoParse

\* parse_reg_file(filename, regs) as a whole: fopen fails and the buffer is
\* left alone, or the file is parsed, or the first read fails after the
\* buffer was cleared
ParseRegFile ==
    /\ ~pf_ret.done
    /\ \/ /\ pf_ret' = [done |-> TRUE, ret |-> -1, err |-> "open", line_nr |-> 0]
          /\ pf_regs' = pf_regs
       \/ LET res == parse_reg_file(pf_file, pf_regs)
          IN  /\ pf_ret' = [done |-> TRUE, ret |-> res.ret, err |-> res.err,
                            line_nr |-> res.line_nr]
              /\ pf_regs' = res.regs
       \/ /\ pf_ret' = [done |-> TRUE, ret |-> -1, err |-> "read", line_nr |-> 0]
          /\ pf_regs' = sparse_buf_clear(pf_regs)
    /\ UNCHANGED <<pf_file, pf_pre>>
    /\ UNCHANGED <<ringVars, daemonVars, sparseVars, hexVars, argVars, drvVars>>

ParserNext == ParseRegFile

SpecParser == ParserInit /\ [][ParserNext]_vars

\* the call parsed the file: it opened and every read succeeded
Parsed == pf_ret.done /\ pf_ret.err \notin {"open", "read"}

\* the file that lists the entries of E in the addr,value form, and in the
\* WDS form, one line each
plain_file(E) == cfg_file([i \in 1..Len(E) |-> plain_line(E[i])], TRUE)

wds_file(E) == cfg_file([i \in 1..Len(E) |-> wds_line(E[i])], TRUE)

\* the entries of E name register o; the value of the last entry that does
Named(E, o) == \E i \in 1..Len(E) : E[i][1] = o

LastValue(E, o) ==
    LET last == CHOOSE i \in 1..Len(E) :
                    E[i][1] = o /\ \A j \in (i + 1)..Len(E) : E[j][1] # o
    IN  E[last][2]

\* the buffer holds exactly the registers E names, each with its last value
HoldsExactly(regs, E) ==
    \A o \in 0..(REGS_SIZE - 1) :
        /\ sparse_buf_is_valid(regs, o) <=> Named(E, o)
        /\ Named(E, o) => sparse_buf_at(regs, o) = LastValue(E, o)

RegEntryLists == SeqsUpTo({e \in CfgEntries : e[1] <= 126}, MaxCfgLines)

\* every such list of entries with its two files
PlainWdsFiles ==
    {[entries |-> E, plain |-> plain_file(E), wds |-> wds_file(E)] : E \in RegEntryLists}

\* C14: parser format equivalence. A file of addr,value lines for registers
\* 0..126 and the file of the WDS lines for the same registers and values
\* both parse with success and leave the same registers valid with the same
\* values in a buffer of size 128: the registers of the entries, each with
\* the value of its last entry.
C14_PlainWdsEquivalent ==
    Parsed => \A f \in PlainWdsFiles :
        pf_file = f.plain =>
            LET w == parse_reg_file(f.wds, pf_pre)
            IN  /\ pf_ret.ret = 0
                /\ w.ret = 0
                /\ \A o \in 0..(REGS_SIZE - 1) :
                      /\ sparse_buf_is_valid(w.regs, o) = sparse_buf_is_valid(pf_regs, o)
                      /\ sparse_buf_is_valid(pf_regs, o) =>
                            sparse_buf_at(w.regs, o) = sparse_buf_at(pf_regs, o)
                /\ HoldsExactly(pf_regs, f.entries)

C14_Witness ==
    /\ Parsed
    /\ pf_file = plain_file(<<<<0, 17>>, <<126, 45>>>>)
    /\ pf_pre = StaleRegs
    /\ pf_ret.ret = 0
    /\ sparse_buf_at(pf_regs, 126) = 45
    /\ parse_reg_file(wds_file(<<<<0, 17>>, <<126, 45>>>>), pf_pre).regs = pf_regs

\* the raw lines of a file, terminators left out, and whether its last line
\* has a terminator
RECURSIVE RawLines(_)
RawLines(file) ==
    IF file = <<>> THEN <<>>
    ELSE LET nl == {k \in 1..Len(file) : file[k] = CH_NL}
             k == IF nl = {} THEN Len(file) + 1 ELSE MinOf(nl)
         IN  <<SubSeq(file, 1, k - 1)>> \o RawLines(SubSeq(file, k + 1, Len(file)))

LastTerminated(file) == file # <<>> /\ file[Len(file)] = CH_NL

\* a line without the spaces and tabs around it
Trim(line) ==
    LET ink == {k \in 1..Len(line) : line[k] \notin {CH_SP, CH_TAB}}
    IN  IF ink = {} THEN <<>>
        ELSE SubSeq(line, MinOf(ink), CHOOSE k \in ink : \A j \in ink : j <= k)

\* the directives of a file: its lines trimmed, the blank ones dropped
Directives(file) == SelectSeq([i \in 1..Len(RawLines(file)) |-> Trim(RawLines(file)[i])],
                              LAMBDA l : l # <<>>)

\* the file without any decoration: one directive per line, each terminated
Canonical(file) == cfg_file(Directives(file), TRUE)

\* the file has white space around a line, a blank line, or no final newline
Decorated(file) == file # Canonical(file)

\* every raw line fits the line buffer with its terminator and the NUL
ShortLines(file) ==
    \A i \in 1..Len(RawLines(file)) : Len(RawLines(file)[i]) <= LineBufSize - 2

\* the length of raw line i of the file, its terminator included
RawLen(file, i) ==
    Len(RawLines(file)[i])
        + (IF i < Len(RawLines(file)) \/ LastTerminated(file) THEN 1 ELSE 0)

\* every raw line is within the documented maximum line length
WithinLimit(file) ==
    \A i \in 1..Len(RawLines(file)) : RawLen(file, i) <= LineBufSize

\* C15: parser whitespace tolerance. Spaces and tabs before or after a line,
\* blank lines and the presence of the final newline do not change the
\* outcome: for a file whose lines stay within the maximum line length the
\* call returns what it returns for the undecorated file and leaves the same
\* register buffer.
C15_WhitespaceTolerance ==
    (Parsed /\ WithinLimit(pf_file)) =>
        LET c == parse_reg_file(Canonical(pf_file), pf_pre)
        IN  pf_ret.ret = c.ret /\ pf_regs = c.regs

\* white space is tolerated in every file whose lines, terminators excluded,
\* are at most sizeof(buf) - 2 characters long
WhitespaceToleranceShort ==
    (Parsed /\ ShortLines(pf_file)) =>
        LET c == parse_reg_file(Canonical(pf_file), pf_pre)
        IN  pf_ret.ret = c.ret /\ pf_regs = c.regs

WhitespaceToleranceShort_Witness ==
    /\ Parsed
    /\ pf_file = cfg_file(<< <<CH_TAB>> \o plain_line(<<1, 34>>), <<CH_TAB, CH_SP>> >>, FALSE)
    /\ Decorated(pf_file)
    /\ ShortLines(pf_file)
    /\ pf_ret.ret = 0
    /\ sparse_buf_at(pf_regs, 1) = 34

\* a directive that decodes to the 7-bit address 0x7F: 7F and a value in
\* the addr,value form, S2 FF and a value in the WDS form
Decodes7F(l) ==
    \/ /\ Len(l) = 5
       /\ l[1] = 55 /\ l[2] \in {70, 102} /\ l[3] = CH_SP
       /\ IsHexDigit(l[4]) /\ IsHexDigit(l[5])
    \/ /\ Len(l) = 7
       /\ l[1] \in {83, 115} /\ l[2] = 50 /\ l[3] = CH_SP
       /\ l[4] \in {70, 102} /\ l[5] \in {70, 102}
       /\ IsHexDigit(l[6]) /\ IsHexDigit(l[7])

\* C16: reserved address rejection. A file with a line that decodes to the
\* 7-bit address 0x7F, in either form, makes the parse fail; after a
\* successful parse offset 0x7F is never valid, whatever the buffer held.
C16_ReservedAddress ==
    Parsed =>
        /\ (\E i \in 1..Len(Directives(pf_file)) : Decodes7F(Directives(pf_file)[i]))
              => pf_ret.ret = -1
        /\ pf_ret.ret = 0 => ~sparse_buf_is_valid(pf_regs, 127)

C16_Witness ==
    /\ Parsed
    /\ pf_file = cfg_file(<<plain_line(<<0, 17>>), wds_line(<<127, 17>>)>>, TRUE)
    /\ Decodes7F(Directives(pf_file)[2])
    /\ sparse_buf_is_valid(pf_pre, 127)
    /\ pf_ret.ret = -1
    /\ pf_ret.err = "addr_7f"
    /\ pf_ret.line_nr = 2

\* C17: plain-form separator. A line of two hex digits, one tab and two hex
\* digits is accepted and gives the entry of the line with one space: the
\* file with the documentation's line 36<TAB>2D parses with success and
\* leaves register 0x36 valid with value 0x2D, like the file with 36 2D.
C17_TabSeparator ==
    (Parsed /\ pf_file = cfg_file(<<plain_line_tab(<<54, 45>>)>>, TRUE)) =>
        LET c == parse_reg_file(cfg_file(<<plain_line(<<54, 45>>)>>, TRUE), pf_pre)
        IN  /\ pf_ret.ret = 0
            /\ c.ret = 0
            /\ pf_regs = c.regs
            /\ sparse_buf_is_valid(pf_regs, 54)
            /\ sparse_buf_at(pf_regs, 54) = 45

\* C18: configuration line length limit. A line whose raw length with its
\* terminator is at most the maximum line length is never rejected as too
\* long, and a file with a longer line fails the parse.
C18_LineLengthLimit ==
    Parsed =>
        /\ pf_ret.err = "too_long" => RawLen(pf_file, pf_ret.line_nr) > LineBufSize
        /\ ~WithinLimit(pf_file) => pf_ret.ret = -1

\* the bytes two hex characters stand for
HexByte(a, b) == 16 * DigitValue(a) + DigitValue(b)

\* a directive in the addr,value form: two hex digits, one space or tab,
\* two hex digits, the address below 0x80 and not 0x7F
WellFormedPlain(l) ==
    /\ Len(l) = 5
    /\ IsHexDigit(l[1]) /\ IsHexDigit(l[2])
    /\ l[3] \in {CH_SP, CH_TAB}
    /\ IsHexDigit(l[4]) /\ IsHexDigit(l[5])
    /\ HexByte(l[1], l[2]) < 127

\* a directive in the WDS form: S or s, 2, one space, four hex digits, the
\* address byte with its most significant bit set and not 0xFF
WellFormedWds(l) ==
    /\ Len(l) = 7
    /\ l[1] \in {83, 115} /\ l[2] = 50 /\ l[3] = CH_SP
    /\ \A k \in 4..7 : IsHexDigit(l[k])
    /\ HexByte(l[4], l[5]) >= 128
    /\ HexByte(l[4], l[5]) < 255

WellFormed(l) == WellFormedPlain(l) \/ WellFormedWds(l)

\* the register entry a well-formed directive names
EntryOf(l) ==
    IF WellFormedWds(l)
    THEN <<HexByte(l[4], l[5]) - 128, HexByte(l[6], l[7])>>
    ELSE <<HexByte(l[1], l[2]), HexByte(l[4], l[5])>>

EntriesOf(file) == [i \in 1..Len(Directives(file)) |-> EntryOf(Directives(file)[i])]

\* C19: parser result exactness. For a file within the maximum line length
\* the parse succeeds if and only if every non-blank line is a well-formed
\* directive; after a successful parse, whatever the buffer held, a register
\* is valid exactly when a line names it and holds the value of the last
\* line that names it.
C19_ResultExactness ==
    (Parsed /\ WithinLimit(pf_file)) =>
        /\ pf_ret.ret = 0 <=>
              \A i \in 1..Len(Directives(pf_file)) : WellFormed(Directives(pf_file)[i])
        /\ pf_ret.ret = 0 => HoldsExactly(pf_regs, EntriesOf(pf_file))

----------------------------------------------------------------------------
(* main.c: the -s option and the copy of the socket path into local.sun_path *)

\* sizeof(local.sun_path), scaled down
SunPathSize == 3

\* the characters a path argument is made of ('/', 'a')
PathChars == {47, 97}

\* DEFAULT_SOCK_PATH, a path that fits
DefaultSockPath == <<47>>

strlen(s) == Len(s)

\* the test of the -s case: the path is refused
sock_path_too_long(path) == strlen(path) >= SunPathSize + 1

\* the assertion in front of the copy
sock_path_assert(path) == strlen(path) < SunPathSize + 1

\* the bytes strcpy writes: the string and its terminating NUL
strcpy_bytes(path) == Append(path, 0)

SockPathInit ==
    /\ RingIdle
    /\ DaemonIdle
    /\ SparseIdle
    /\ ParserIdle
    /\ HexIdle
    /\ DrvIdle
    /\ sp_pc = "args"
    /\ sp_arg \in [given : {TRUE}, path : SeqsUpTo(PathChars, SunPathSize + 2)]
                     \cup {NoArg}
    /\ sp_sun = <<>>
    /\ sp_spill = <<>>
    /\ sp_fault = "none"

\* main(): argument parsing, as far as the socket path goes
SockPathParse ==
    /\ sp_pc = "args"
    /\ IF sp_arg.given /\ sock_path_too_long(sp_arg.path)
       THEN sp_pc' = "exit"
       ELSE sp_pc' = "parsed"
    /\ UNCHANGED <<sp_arg, sp_sun, sp_spill, sp_fault>>
    /\ UNCHANGED <<ringVars, daemonVars, sparseVars, parserVars, hexVars, drvVars>>

\* main(): assert and strcpy(local.sun_path, sock_path).  A copy that does not
\* fit writes past the array: the process goes on with the bytes after the
\* array overwritten, or it is killed.
SockPathCopy ==
    /\ sp_pc = "parsed"
    /\ LET sock_path == IF sp_arg.given THEN sp_arg.path ELSE DefaultSockPath
           bytes == strcpy_bytes(sock_path)
       IN  IF ~sock_path_assert(sock_path)
           THEN /\ sp_fault' = "assert"
                /\ sp_pc' = "exit"
                /\ UNCHANGED <<sp_sun, sp_spill>>
           ELSE IF Len(bytes) <= SunPathSize
           THEN /\ sp_sun' = bytes
                /\ sp_pc' = "bound"
                /\ UNCHANGED <<sp_spill, sp_fault>>
           ELSE \/ /\ sp_sun' = SubSeq(bytes, 1, SunPathSize)
                   /\ sp_spill' = SubSeq(bytes, SunPathSize + 1, Len(bytes))
                   /\ sp_pc' = "bound"
                   /\ UNCHANGED sp_fault
                \/ /\ sp_fault' = "crash"
                   /\ sp_pc' = "exit"
                   /\ UNCHANGED <<sp_sun, sp_spill>>
    /\ UNCHANGED sp_arg
    /\ UNCHANGED <<ringVars, daemonVars, sparseVars, parserVars, hexVars, drvVars>>

SockPathNext == SockPathParse \/ SockPathCopy

SpecSockPath == SockPathInit /\ [][SockPathNext]_vars

\* C24: every -s path that passes argument parsing fits, with its terminating
\* NUL, in local.sun_path, and the copy stays inside the array
C24_SockPathFits ==
    /\ (sp_arg.given /\ sp_pc \in {"parsed", "bound"})
          => strlen(sp_arg.path) + 1 <= SunPathSize
    /\ sp_spill = <<>>
    /\ sp_fault = "none"

\* a -s path of exactly sizeof(sun_path) characters was accepted and copied
C24_FailingInput ==
    /\ sp_arg.given
    /\ strlen(sp_arg.path) = SunPathSize
    /\ sp_pc = "bound"

\* paths that are too long by two or more are refused before any copy
C24_LongerRejected ==
    (sp_arg.given /\ strlen(sp_arg.path) > SunPathSize)
        => sp_pc \in {"args", "exit"} /\ sp_sun = <<>> /\ sp_spill = <<>> /\ sp_fault = "none"

----------------------------------------------------------------------------
(* si443x.c and sx1231.c: the transceiver drivers.  A driver call is a      *)
(* sequence of SPI transactions; it is computed by threading a record m     *)
(* through the steps of the function:                                       *)
(*   m.err    the err of the TRY macro (ERR_OK while no step has failed)    *)
(*   m.fault  "none", "assert" (an assertion failed) or "crash"             *)
(*   m.log    the SPI transactions issued so far, in order                  *)
(*   m.hw     the chip's registers                                          *)
(*   m.fifo   the bytes the chip's receive FIFO still holds                 *)
(*   m.dev    the device handle                                             *)
(*   m.rx, m.tx  the ring buffers handed to the call                        *)
(*   m.over   bytes were stored past the end of a local array               *)
(* The environment of a call is a record sc: the transaction that fails     *)
(* (fail_at, 0 for none), the number of times a polled flag reads as not    *)
(* yet set (polls), the answers of the status registers and how undefined   *)
(* behaviour turns out (ub).  The drivers run with verbose = 0.             *)

ERR_OK == "ERR_OK"

ERR_SPI_OPEN_DEV == "ERR_SPI_OPEN_DEV"

ERR_RFM_CHIP_VERSION == "ERR_RFM_CHIP_VERSION"

ERR_RFM_TX_OUT_OF_SYNC == "ERR_RFM_TX_OUT_OF_SYNC"

\* the error of a failed SPI transfer
ERR_SPI == "ERR_SPI"

\* Si443x registers and bits (si443x_enums.h)
DEVICE_TYPE == 0

DEVICE_TYPE_EZRADIOPRO == 8

DEVICE_STATUS == 2

DEVICE_STATUS_FFOVFL == 128

DEVICE_STATUS_FFUNFL == 64

DEVICE_STATUS_RXFFEM == 32

INTERRUPT_STATUS_2 == 4

INTERRUPT_STATUS_2_ISWDET == 128

INTERRUPT_STATUS_2_ICHIPRDY == 2

OPERATING_MODE_AND_FUNCTION_CONTROL_1 == 7

OPERATING_MODE_AND_FUNCTION_CONTROL_1_SWRES == 128

OPERATING_MODE_AND_FUNCTION_CONTROL_1_RXON == 4

OPERATING_MODE_AND_FUNCTION_CONTROL_1_XTON == 1

OPERATING_MODE_AND_FUNCTION_CONTROL_2 == 8

OPERATING_MODE_AND_FUNCTION_CONTROL_2_FFCLRRX == 2

HEADER_CONTROL_2 == 51

HEADER_CONTROL_2_HDLEN_SHIFT == 4

HEADER_CONTROL_2_HDLEN_MASK == 7

HEADER_CONTROL_2_FIXPKLEN == 8

TRANSMIT_PACKET_LENGTH == 62

FIFO_ACCESS == 127

\* SX1231 registers and bits (sx1231_enums.h)
RegFifo == 0

RegOpMode == 1

OP_MODE_MODE_STDBY == 4

OP_MODE_MODE_TX == 12

OP_MODE_MODE_RX == 16

RegVersion == 16

SX1231_VERSION_MASK == 240

SX1231_VERSION == 32

RegIrqFlags1 == 39

IRQ_FLAGS1_MODEREADY == 128

IRQ_FLAGS1_SYNCADDRESSMATCH == 1

RegIrqFlags2 == 40

IRQ_FLAGS2_FIFOOVERRUN == 16

IRQ_FLAGS2_PACKETSENT == 8

IRQ_FLAGS2_PAYLOADREADY == 4

RegPacketConfig1 == 55

PACKET_CONFIG1_PACKETFORMAT == 128

RegPayloadLength == 56

SX1231_FIFO_SIZE == 66

CRC_16_POLY == 32773

\* uint8_t buf[64], the scratch buffer of both receive paths
SCRATCH_SIZE == 64

\* val & mask for a mask of one bit is word_and(val, mask); val & ~mask and
\* val | mask
bit_clear(val, mask) == val - word_and(val, mask)

bit_set(val, mask) == word_or(val, mask)

\* crc ^ CRC_16_POLY, as a + b - 2 * (a & b): the polynomial 0x8005 has bits
\* 15, 2 and 0
xor_poly(crc) ==
    crc + CRC_16_POLY - 2 * (word_and(crc, 32768) + word_and(crc, 4) + word_and(crc, 1))

\* the inner while loop of the CRC: one byte b shifted into crc bit by bit,
\* j bits to go; do_xor is bit 7 of b ^ (crc >> 8)
RECURSIVE crc16_bits(_, _, _)
crc16_bits(crc, b, j) ==
    IF j = 0 THEN crc
    ELSE IF (word_and(b, 128) # 0) # (word_and(crc, 32768) # 0)
    THEN crc16_bits(xor_poly((crc * 2) % 65536), (b * 2) % 256, j - 1)
    ELSE crc16_bits((crc * 2) % 65536, (b * 2) % 256, j - 1)

\* the for loop of the CRC over buf[i .. n-1] (buf is indexed from 0); crc is
\* a uint16_t, and the test of its range has it evaluated pass by pass
RECURSIVE crc16_loop(_, _, _, _)
crc16_loop(crc, buf, i, n) ==
    IF i >= n \/ crc \notin 0..65535 THEN crc
    ELSE crc16_loop(crc16_bits(crc, buf[i + 1], 8), buf, i + 1, n)

\* the SPI transport's assertions on a transfer of len bytes at addr
spi_precondition(addr, len) ==
    /\ word_and(addr, 128) = 0
    /\ \/ addr = 127 /\ len <= 64
       \/ len < 127 /\ addr <= 127 - len

\* the same without the bound on auto-incrementing accesses
spi_precondition_top_bit(addr, len) == word_and(addr, 128) = 0

running(m) == m.err = ERR_OK /\ m.fault = "none"

\* the registers of each chip that the driver reads back
TrackedRegs(chip) ==
    IF chip = "si443x"
    THEN {OPERATING_MODE_AND_FUNCTION_CONTROL_1, OPERATING_MODE_AND_FUNCTION_CONTROL_2,
          HEADER_CONTROL_2, TRANSMIT_PACKET_LENGTH}
    ELSE {RegOpMode, RegPacketConfig1, RegPayloadLength}

\* the chip's registers after power-on or software reset
PowerOnRegs(chip) ==
    IF chip = "si443x"
    THEN (OPERATING_MODE_AND_FUNCTION_CONTROL_1 :> 1) @@ (OPERATING_MODE_AND_FUNCTION_CONTROL_2 :> 0)
            @@ (HEADER_CONTROL_2 :> 34) @@ (TRANSMIT_PACKET_LENGTH :> 0)
    ELSE (RegOpMode :> 4) @@ (RegPacketConfig1 :> 16) @@ (RegPayloadLength :> 64)

\* the chip's side of a register write of data at addr: registers other than
\* the FIFO take the bytes at ascending addresses, and the Si443x resets
\* itself when SWRES is written
hw_write(chip, hw, addr, data) ==
    LET fifo_addr == IF chip = "si443x" THEN FIFO_ACCESS ELSE RegFifo
        stored == [a \in DOMAIN hw |->
                     IF addr # fifo_addr /\ a >= addr /\ a < addr + Len(data)
                     THEN data[a - addr + 1] ELSE hw[a]]
    IN  IF /\ chip = "si443x"
           /\ addr <= OPERATING_MODE_AND_FUNCTION_CONTROL_1
           /\ OPERATING_MODE_AND_FUNCTION_CONTROL_1 < addr + Len(data)
           /\ word_and(stored[OPERATING_MODE_AND_FUNCTION_CONTROL_1],
                       OPERATING_MODE_AND_FUNCTION_CONTROL_1_SWRES) # 0
        THEN PowerOnRegs(chip)
        ELSE stored

\* one SPI transaction: the assertions, then the transfer, which succeeds
\* unless it is the one the environment makes fail
spi_transfer(chip, m, sc, rw, addr, data) ==
    LET op == [rw |-> rw, addr |-> addr, data |-> data]
    IN  IF ~running(m) THEN m
        ELSE IF ~spi_precondition(addr, Len(data))
        THEN [m EXCEPT !.fault = "assert", !.log = Append(@, op)]
        ELSE IF Len(m.log) + 1 = sc.fail_at
        THEN [m EXCEPT !.err = ERR_SPI, !.log = Append(@, op)]
        ELSE [m EXCEPT !.log = Append(@, op),
                       !.hw = IF rw = "w" THEN hw_write(chip, @, addr, data) ELSE @]

spi_write_regs(chip, m, sc, addr, data) == spi_transfer(chip, m, sc, "w", addr, data)

spi_write_reg(chip, m, sc, addr, val) == spi_transfer(chip, m, sc, "w", addr, <<val>>)

\* a read of len registers starting at addr; the bytes read are the data of
\* the transaction logged last
spi_read_regs(chip, m, sc, addr, len) ==
    spi_transfer(chip, m, sc, "r", addr, [i \in 1..len |-> m.hw[addr + i - 1]])

spi_read_reg(chip, m, sc, addr) == spi_read_regs(chip, m, sc, addr, 1)

\* a read of a status register, answered by the environment
spi_read_status(chip, m, sc, addr, answer) == spi_transfer(chip, m, sc, "r", addr, answer)

\* a read of len bytes of the receive FIFO; an empty FIFO reads as 0
fifo_bytes(fifo, len) == [i \in 1..len |-> IF i <= Len(fifo) THEN fifo[i] ELSE 0]

fifo_rest(fifo, len) == IF len >= Len(fifo) THEN <<>> ELSE SubSeq(fifo, len + 1, Len(fifo))

spi_read_fifo(chip, m, sc, addr, len) ==
    LET m1 == spi_transfer(chip, m, sc, "r", addr, fifo_bytes(m.fifo, len))
    IN  IF running(m1) /\ running(m) THEN [m1 EXCEPT !.fifo = fifo_rest(@, len)] ELSE m1

\* the value the last transaction read
last_read(m) == m.log[Len(m.log)].data

\* a flag polled until it is set: sc.polls reads that find it clear (answer
\* busy), then one that finds it set (answer ready)
RECURSIVE poll_status(_, _, _, _, _, _, _)
poll_status(chip, m, sc, addr, busy, ready, n) ==
    IF ~running(m) THEN m
    ELSE IF n = 0 THEN spi_read_status(chip, m, sc, addr, ready)
    ELSE poll_status(chip, spi_read_status(chip, m, sc, addr, busy), sc, addr, busy, ready, n - 1)

\* local array of size bytes receiving n bytes: a transfer that does not fit
\* stores past the end of the array, and the process either goes on with its
\* stack overwritten or is killed
scratch_store(m1, sc, n, size) ==
    IF ~running(m1) \/ n <= size THEN m1
    ELSE IF sc.ub = "abort" THEN [m1 EXCEPT !.fault = "crash"]
    ELSE [m1 EXCEPT !.over = TRUE]

\* the append without the test for free space
rx_append_always(m, data) ==
    [m EXCEPT !.rx = ring_buf_add(m.rx, data),
              !.fault = IF add_fault(m.rx, data) = "none" THEN @
                        ELSE add_fault(m.rx, data)]

\* the append at the end of both receive paths
rx_append(m, data) ==
    IF ring_buf_bytes_free(m.rx) >= Len(data)
    THEN [m EXCEPT !.rx = ring_buf_add(m.rx, data),
                   !.fault = IF add_fault(m.rx, data) = "none" THEN @
                             ELSE add_fault(m.rx, data)]
    ELSE m

\* si443x.c: _sync_config
si443x_sync_config(m, sc) ==
    LET m1 == spi_read_reg("si443x", m, sc, HEADER_CONTROL_2)
    IN  IF ~running(m1) THEN m1
        ELSE LET val == last_read(m1)[1]
                 m2  == [m1 EXCEPT !.dev.txhdlen =
                            (val \div 2^HEADER_CONTROL_2_HDLEN_SHIFT)
                                % (HEADER_CONTROL_2_HDLEN_MASK + 1)]
             IN  IF word_and(val, HEADER_CONTROL_2_FIXPKLEN) # 0
                 THEN LET m3 == spi_read_reg("si443x", m2, sc, TRANSMIT_PACKET_LENGTH)
                      IN  IF running(m3)
                          THEN [m3 EXCEPT !.dev.fixpklen = last_read(m3)[1]]
                          ELSE m3
                 ELSE [m2 EXCEPT !.dev.fixpklen = 0]

\* sx1231.c: _sync_config
sx1231_sync_config(m, sc) ==
    LET m1 == spi_read_reg("sx1231", m, sc, RegPacketConfig1)
    IN  IF ~running(m1) THEN m1
        ELSE IF word_and(last_read(m1)[1], PACKET_CONFIG1_PACKETFORMAT) # 0
        THEN [m1 EXCEPT !.dev.fixpklen = 0]
        ELSE LET m2 == spi_read_reg("sx1231", m1, sc, RegPayloadLength)
             IN  IF running(m2)
                 THEN [m2 EXCEPT !.dev.fixpklen = last_read(m2)[1]]
                 ELSE m2

sync_config(chip, m, sc) ==
    IF chip = "si443x" THEN si443x_sync_config(m, sc) ELSE sx1231_sync_config(m, sc)

\* the loop of _configure writing one register per pass
RECURSIVE configure_loop_single(_, _, _, _, _, _)
configure_loop_single(chip, m, sc, regs, off, n) ==
    LET nxt == sparse_buf_next_valid(regs, off)
    IN  IF ~running(m) \/ nxt = SPARSE_BUF_OFF_END THEN m
        ELSE IF n > regs.size THEN [m EXCEPT !.fault = "hang"]
        ELSE configure_loop_single(chip,
                 spi_write_regs(chip, m, sc, nxt, <<regs.values[nxt]>>),
                 sc, regs, nxt + 1, n + 1)

\* the while loop of _configure, from offset off on; n counts its passes, and a
\* loop that made more passes than there are registers is reported as hanging
RECURSIVE configure_loop(_, _, _, _, _, _)
configure_loop(chip, m, sc, regs, off, n) ==
    LET nxt == sparse_buf_next_valid(regs, off)
    IN  IF ~running(m) \/ nxt = SPARSE_BUF_OFF_END THEN m
        ELSE IF n > regs.size THEN [m EXCEPT !.fault = "hang"]
        ELSE LET len  == sparse_buf_valid_length(regs, nxt)
                 data == [i \in 1..len |-> regs.values[nxt + i - 1]]
             IN  configure_loop(chip, spi_write_regs(chip, m, sc, nxt, data),
                                sc, regs, nxt + len, n + 1)

\* _configure without the final _sync_config (si443x_configure of the
\* earlier driver)
configure_nosync(chip, m, sc, regs) == configure_loop(chip, m, sc, regs, 0, 0)

\* si443x.c, sx1231.c: _configure
configure(chip, m, sc, regs) ==
    sync_config(chip, configure_loop(chip, m, sc, regs, 0, 0), sc)

\* si443x.c: _reset
si443x_reset(m, sc) ==
    LET m1 == spi_write_reg("si443x", m, sc, OPERATING_MODE_AND_FUNCTION_CONTROL_1,
                            OPERATING_MODE_AND_FUNCTION_CONTROL_1_XTON
                                + OPERATING_MODE_AND_FUNCTION_CONTROL_1_SWRES)
    IN  poll_status("si443x", m1, sc, INTERRUPT_STATUS_2,
                    <<0>>, <<INTERRUPT_STATUS_2_ICHIPRDY>>, sc.polls)

\* si443x.c: rf_init
si443x_rf_init(m, sc, regs) ==
    LET m1 == si443x_reset(m, sc)
        m2 == configure("si443x", m1, sc, regs)
        m3 == spi_write_reg("si443x", m2, sc, OPERATING_MODE_AND_FUNCTION_CONTROL_1, 5)
    IN  spi_write_reg("si443x", m3, sc, OPERATING_MODE_AND_FUNCTION_CONTROL_2, 16)

\* _reset_rx_fifo re-enabling the receiver before the FIFO clear pulse
si443x_reset_rx_fifo_early(m, sc) ==
    LET m1 == spi_read_regs("si443x", m, sc, OPERATING_MODE_AND_FUNCTION_CONTROL_1, 2)
    IN  IF ~running(m1) THEN m1
        ELSE LET ctrl == last_read(m1)
                 rxon == word_and(ctrl[1], OPERATING_MODE_AND_FUNCTION_CONTROL_1_RXON) # 0
                 m2 == IF rxon
                       THEN spi_write_reg("si443x", m1, sc,
                                OPERATING_MODE_AND_FUNCTION_CONTROL_1,
                                bit_clear(ctrl[1], OPERATING_MODE_AND_FUNCTION_CONTROL_1_RXON))
                       ELSE m1
                 m3 == IF rxon
                       THEN spi_write_reg("si443x", m2, sc,
                                OPERATING_MODE_AND_FUNCTION_CONTROL_1, ctrl[1])
                       ELSE m2
                 m4 == spi_write_reg("si443x", m3, sc,
                           OPERATING_MODE_AND_FUNCTION_CONTROL_2,
                           bit_set(ctrl[2], OPERATING_MODE_AND_FUNCTION_CONTROL_2_FFCLRRX))
             IN  spi_write_reg("si443x", m4, sc,
                     OPERATING_MODE_AND_FUNCTION_CONTROL_2,
                     bit_clear(ctrl[2], OPERATING_MODE_AND_FUNCTION_CONTROL_2_FFCLRRX))

\* si443x.c: _reset_rx_fifo
si443x_reset_rx_fifo(m, sc) ==
    LET m1 == spi_read_regs("si443x", m, sc, OPERATING_MODE_AND_FUNCTION_CONTROL_1, 2)
    IN  IF ~running(m1) THEN m1
        ELSE LET ctrl == last_read(m1)
                 rxon == word_and(ctrl[1], OPERATING_MODE_AND_FUNCTION_CONTROL_1_RXON) # 0
                 m2 == IF rxon
                       THEN spi_write_reg("si443x", m1, sc,
                                OPERATING_MODE_AND_FUNCTION_CONTROL_1,
                                bit_clear(ctrl[1], OPERATING_MODE_AND_FUNCTION_CONTROL_1_RXON))
                       ELSE m1
                 m3 == spi_write_reg("si443x", m2, sc,
                           OPERATING_MODE_AND_FUNCTION_CONTROL_2,
                           bit_set(ctrl[2], OPERATING_MODE_AND_FUNCTION_CONTROL_2_FFCLRRX))
                 m4 == spi_write_reg("si443x", m3, sc,
                           OPERATING_MODE_AND_FUNCTION_CONTROL_2,
                           bit_clear(ctrl[2], OPERATING_MODE_AND_FUNCTION_CONTROL_2_FFCLRRX))
             IN  IF rxon
                 THEN spi_write_reg("si443x", m4, sc,
                          OPERATING_MODE_AND_FUNCTION_CONTROL_1, ctrl[1])
                 ELSE m4

\* si443x.c: rf_handle from "Read Header" on, with the flag polling done
si443x_receive(m, sc) ==
    LET hdrlen == m.dev.txhdlen + (IF m.dev.fixpklen = 0 THEN 1 ELSE 0)
        m1 == IF hdrlen # 0 THEN spi_read_fifo("si443x", m, sc, FIFO_ACCESS, hdrlen) ELSE m
    IN  IF ~running(m1) THEN m1
        ELSE LET hdr    == IF hdrlen # 0 THEN last_read(m1) ELSE <<>>
                 pktlen == IF m.dev.fixpklen = 0 THEN hdr[hdrlen] ELSE m.dev.fixpklen
             IN  IF m.dev.fixpklen = 0 /\ pktlen > SI443X_FIFO_SIZE - 3
                 THEN si443x_reset_rx_fifo(m1, sc)
                 ELSE LET m2 == scratch_store(
                                    spi_read_fifo("si443x", m1, sc, FIFO_ACCESS, pktlen),
                                    sc, hdrlen + pktlen, SCRATCH_SIZE)
                      IN  IF ~running(m2) THEN m2
                          ELSE LET buf == hdr \o last_read(m2)
                                   m3  == spi_read_status("si443x", m2, sc, DEVICE_STATUS,
                                                          <<sc.st2>>)
                               IN  IF ~running(m3) THEN m3
                                   ELSE IF word_and(sc.st2, DEVICE_STATUS_FFOVFL) # 0
                                           \/ word_and(sc.st2, DEVICE_STATUS_FFUNFL) # 0
                                   THEN si443x_reset_rx_fifo(m3, sc)
                                   ELSE rx_append(m3, buf)

\* si443x.c: rf_handle
si443x_rf_handle(m, sc) ==
    LET m1 == spi_read_status("si443x", m, sc, DEVICE_STATUS, <<sc.st1>>)
    IN  IF ~running(m1) \/ word_and(sc.st1, DEVICE_STATUS_RXFFEM) # 0 THEN m1
        ELSE si443x_receive(poll_status("si443x", m1, sc, INTERRUPT_STATUS_2,
                                        <<INTERRUPT_STATUS_2_ISWDET>>, <<0>>, sc.polls),
                            sc)

\* ring_buf.h: ring_buf_get(obj, data, len), the bytes copied out and the
\* buffer left: a peek of len bytes at the read offset, then a consume.  Asking
\* for more than the buffer holds is undefined: the consume's assertion stops
\* the process, or the read offset moves past the write offset.
ring_buf_peek(obj, len) == [i \in 1..len |-> obj.buf[(obj.roff + i - 1) % obj.size]]

ring_buf_get(m, sc, len) ==
    IF ~running(m) THEN m
    ELSE IF ~consume_assert(m.tx, len) /\ sc.ub = "abort"
    THEN [m EXCEPT !.fault = "assert"]
    ELSE [m EXCEPT !.tx = ring_buf_consume(@, len)]

\* sx1231.c: _switch_mode
sx1231_switch_mode(m, sc, mode) ==
    IF ~running(m) THEN m
    ELSE IF mode \notin {0, 4, 8, 12, 16, 20, 24, 28}
    THEN [m EXCEPT !.fault = "assert"]
    ELSE poll_status("sx1231", spi_write_reg("sx1231", m, sc, RegOpMode, mode), sc,
                     RegIrqFlags1, <<0>>, <<IRQ_FLAGS1_MODEREADY>>, sc.polls)

\* _reset_rx_fifo leaving the chip in standby
sx1231_reset_rx_fifo_standby(m, sc) == sx1231_switch_mode(m, sc, OP_MODE_MODE_STDBY)

\* sx1231.c: _reset_rx_fifo
sx1231_reset_rx_fifo(m, sc) ==
    sx1231_switch_mode(sx1231_switch_mode(m, sc, OP_MODE_MODE_STDBY), sc, OP_MODE_MODE_RX)

\* sx1231.c: rf_init (_reset does nothing)
sx1231_rf_init(m, sc, regs) ==
    sx1231_switch_mode(configure("sx1231", m, sc, regs), sc, OP_MODE_MODE_RX)

\* the frame _send_frame is about to send: hdrlen and pktlen
send_hdrlen(m) == IF m.dev.fixpklen = 0 THEN 1 ELSE 0

send_pktlen(m) ==
    IF m.dev.fixpklen = 0 THEN m.tx.buf[ring_buf_begin(m.tx)] ELSE m.dev.fixpklen

\* the test counting the length prefix as well
send_ready_whole(m) == send_hdrlen(m) + send_pktlen(m) <= ring_buf_bytes_used(m.tx)

\* the test that the frame is buffered
send_ready(m) == send_pktlen(m) <= ring_buf_bytes_used(m.tx)

\* _send_frame taking a frame length of 0 for a frame
sx1231_send_frame_zero_ok(m, sc) ==
    LET hdrlen == send_hdrlen(m)
        pktlen == send_pktlen(m)
    IN  IF ~running(m) THEN m
        ELSE IF pktlen > SX1231_FIFO_SIZE - 1
        THEN [m EXCEPT !.err = ERR_RFM_TX_OUT_OF_SYNC]
        ELSE IF send_ready(m)
        THEN LET m1  == sx1231_switch_mode(m, sc, OP_MODE_MODE_STDBY)
                 pkt == ring_buf_peek(m.tx, hdrlen + pktlen)
                 m2  == ring_buf_get(m1, sc, hdrlen + pktlen)
                 m3  == spi_write_regs("sx1231", m2, sc, RegFifo, SubSeq(pkt, 1, pktlen))
                 m4  == sx1231_switch_mode(m3, sc, OP_MODE_MODE_TX)
                 m5  == poll_status("sx1231", m4, sc, RegIrqFlags2,
                                    <<0>>, <<IRQ_FLAGS2_PACKETSENT>>, sc.polls)
             IN  sx1231_switch_mode(m5, sc, OP_MODE_MODE_RX)
        ELSE m

\* _send_frame leaving the chip in TX after the frame was sent
sx1231_send_frame_stay_tx(m, sc) ==
    LET hdrlen == send_hdrlen(m)
        pktlen == send_pktlen(m)
    IN  IF ~running(m) THEN m
        ELSE IF pktlen = 0 \/ pktlen > SX1231_FIFO_SIZE - 1
        THEN [m EXCEPT !.err = ERR_RFM_TX_OUT_OF_SYNC]
        ELSE IF send_ready(m)
        THEN LET m1  == sx1231_switch_mode(m, sc, OP_MODE_MODE_STDBY)
                 pkt == ring_buf_peek(m.tx, hdrlen + pktlen)
                 m2  == ring_buf_get(m1, sc, hdrlen + pktlen)
                 m3  == spi_write_regs("sx1231", m2, sc, RegFifo, SubSeq(pkt, 1, pktlen))
                 m4  == sx1231_switch_mode(m3, sc, OP_MODE_MODE_TX)
             IN  poll_status("sx1231", m4, sc, RegIrqFlags2,
                             <<0>>, <<IRQ_FLAGS2_PACKETSENT>>, sc.polls)
        ELSE m

\* sx1231.c: _send_frame
sx1231_send_frame(m, sc) ==
    LET hdrlen == send_hdrlen(m)
        pktlen == send_pktlen(m)
    IN  IF ~running(m) THEN m
        ELSE IF pktlen = 0 \/ pktlen > SX1231_FIFO_SIZE - 1
        THEN [m EXCEPT !.err = ERR_RFM_TX_OUT_OF_SYNC]
        ELSE IF send_ready(m)
        THEN LET m1  == sx1231_switch_mode(m, sc, OP_MODE_MODE_STDBY)
                 pkt == ring_buf_peek(m.tx, hdrlen + pktlen)
                 m2  == ring_buf_get(m1, sc, hdrlen + pktlen)
                 m3  == spi_write_regs("sx1231", m2, sc, RegFifo, SubSeq(pkt, 1, pktlen))
                 m4  == sx1231_switch_mode(m3, sc, OP_MODE_MODE_TX)
                 m5  == poll_status("sx1231", m4, sc, RegIrqFlags2,
                                    <<0>>, <<IRQ_FLAGS2_PACKETSENT>>, sc.polls)
             IN  sx1231_switch_mode(m5, sc, OP_MODE_MODE_RX)
        ELSE m

\* the local CRC check of _receive_frame on buf, for pktlen already reduced
\* by 2: the packet is kept
crc_match(buf, hdrlen, pktlen) ==
    LET crc == crc16_loop(0, buf, hdrlen, pktlen)
    IN  buf[pktlen + 1] = crc \div 256 /\ buf[pktlen + 2] = crc % 256

\* sx1231.c: _receive_frame
sx1231_receive_frame(m, sc) ==
    LET hdrlen == IF m.dev.fixpklen = 0 THEN 1 ELSE 0
        m1 == IF hdrlen = 1 THEN spi_read_fifo("sx1231", m, sc, RegFifo, 1) ELSE m
    IN  IF ~running(m1) THEN m1
        ELSE LET hdr    == IF hdrlen = 1 THEN last_read(m1) ELSE <<>>
                 pktlen == IF hdrlen = 1 THEN hdr[1] ELSE m.dev.fixpklen
             IN  IF hdrlen = 1 /\ (pktlen = 0 \/ pktlen > SX1231_FIFO_SIZE - 1)
                 THEN sx1231_reset_rx_fifo(m1, sc)
                 ELSE LET m2 == scratch_store(
                                    spi_read_fifo("sx1231", m1, sc, RegFifo, pktlen),
                                    sc, hdrlen + pktlen, SCRATCH_SIZE)
                      IN  IF ~running(m2) THEN m2
                          ELSE LET buf  == hdr \o last_read(m2)
                                   drop == IF pktlen < 2 THEN TRUE
                                           ELSE ~crc_match(buf, hdrlen, pktlen - 2)
                               IN  IF drop THEN m2
                                   ELSE rx_append(m2, SubSeq(buf, 1, hdrlen + pktlen - 2))

\* the loop condition of rf_handle: a packet is arriving
sx1231_receiving(irq_flags) ==
    /\ word_and(irq_flags[1], IRQ_FLAGS1_SYNCADDRESSMATCH) # 0
    /\ word_and(irq_flags[2], IRQ_FLAGS2_PAYLOADREADY) = 0

\* sx1231.c: rf_handle up to the transmit step
sx1231_handle_rx(m, sc) ==
    LET m1 == spi_read_status("sx1231", m, sc, RegIrqFlags1, sc.irq)
    IN  IF ~running(m1) THEN m1
        ELSE IF word_and(sc.irq[2], IRQ_FLAGS2_FIFOOVERRUN) # 0
        THEN spi_write_reg("sx1231", m1, sc, RegIrqFlags2, IRQ_FLAGS2_FIFOOVERRUN)
        ELSE LET m2 == IF sx1231_receiving(sc.irq)
                       THEN poll_status("sx1231", m1, sc, RegIrqFlags1,
                                        sc.irq, sc.irq_end, sc.polls)
                       ELSE m1
                 irq_flags == IF sx1231_receiving(sc.irq) THEN sc.irq_end ELSE sc.irq
             IN  IF ~running(m2) THEN m2
                 ELSE IF word_and(irq_flags[2], IRQ_FLAGS2_PAYLOADREADY) # 0
                 THEN sx1231_receive_frame(m2, sc)
                 ELSE m2

\* sx1231.c: rf_handle
sx1231_rf_handle(m, sc) ==
    LET m1 == sx1231_handle_rx(m, sc)
    IN  IF running(m1) /\ ~ring_buf_empty(m1.tx) THEN sx1231_send_frame(m1, sc) ELSE m1

\* the descriptor open() returns for the SPI device
SpiFd == 3

\* the version test of rf_open on the value read
version_ok(chip, val) ==
    IF chip = "si443x" THEN val = DEVICE_TYPE_EZRADIOPRO
    ELSE (val \div 16) * 16 = SX1231_VERSION

\* rf_close
rf_close(m) == [m EXCEPT !.dev.fd = -1]

\* si443x.c, sx1231.c: rf_open
rf_open(chip, m, sc) ==
    IF ~sc.open_ok THEN [m EXCEPT !.err = ERR_SPI_OPEN_DEV]
    ELSE LET m0 == [m EXCEPT !.dev.fd = SpiFd]
             m1 == spi_read_status(chip, m0, sc,
                                   IF chip = "si443x" THEN DEVICE_TYPE ELSE RegVersion,
                                   <<sc.version>>)
             m2 == IF running(m1) /\ ~version_ok(chip, sc.version)
                   THEN [m1 EXCEPT !.err = ERR_RFM_CHIP_VERSION]
                   ELSE sync_config(chip, m1, sc)
         IN  IF m2.err # ERR_OK THEN rf_close(m2) ELSE m2

rf_init(chip, m, sc, regs) ==
    IF chip = "si443x" THEN si443x_rf_init(m, sc, regs) ELSE sx1231_rf_init(m, sc, regs)

rf_handle(chip, m, sc) ==
    IF chip = "si443x" THEN si443x_rf_handle(m, sc) ELSE sx1231_rf_handle(m, sc)

----------------------------------------------------------------------------
(* The driver specification: one transceiver, opened, initialised and then  *)
(* handled again and again by the daemon's loop.  The ring buffers and the  *)
(* register buffer are arguments of the calls; the chip answers as the      *)
(* environment of each call decides.                                        *)

\* sizes of the ring buffers handed to rf_handle, scaled down
DrvRingSize == 6

\* the most reads a polling loop makes before its flag is set, less one
MaxPolls == 1

\* the SPI transactions of a call that may fail are the first MaxFailAt
MaxFailAt == 16

Chips == {"si443x", "sx1231"}

\* a ring buffer that went through skip bytes before it came to hold data
DrvRing(skip, data) ==
    LET empty == ring_buf_init(DrvRingSize, [i \in 0..(DrvRingSize - 1) |-> 0])
    IN  IF data = <<>> THEN empty
        ELSE IF skip = 0 THEN ring_buf_add(empty, data)
        ELSE ring_buf_add(
                 ring_buf_consume(
                     ring_buf_add(empty, [i \in 1..skip |-> 0] \o <<data[1]>>), skip),
                 SubSeq(data, 2, Len(data)))

EmptyRing == DrvRing(0, <<>>)

\* receive buffers with 0 .. DrvRingSize - 1 bytes waiting for the client
RxRings ==
    {DrvRing(skip, [i \in 1..n |-> 9]) : skip \in {0, 2}, n \in 0..(DrvRingSize - 1)}

\* transmit buffers: whole frames, parts of frames, and bytes that cannot
\* start a frame
TxData ==
    {<<>>, <<0>>, <<66>>, <<1>>, <<1, 7>>, <<2, 7>>, <<2, 7, 8>>, <<3, 7, 8>>,
     <<1, 7, 1>>, <<7, 8>>, <<7>>}

TxRings == {DrvRing(skip, d) : skip \in {0, 2}, d \in TxData}

\* the bytes 1, 2, .. n
Counting(n) == [i \in 1..n |-> i % 256]

crc_bytes(data) ==
    LET crc == crc16_loop(0, data, 0, Len(data)) IN <<crc \div 256, crc % 256>>

\* payloads of len bytes for the SX1231: data followed by its CRC-16, data
\* with its CRC-16 one byte early, and data without a CRC; payloads longer
\* than one SPI transfer are never read whole and come without a CRC
Sx1231Payloads(len) ==
    {Counting(len)}
        \cup (IF len >= 2 /\ len <= 127
              THEN {Counting(len - 2) \o crc_bytes(Counting(len - 2))} ELSE {})
        \cup (IF len >= 3 /\ len <= 127
              THEN {Counting(len - 3) \o crc_bytes(Counting(len - 3)) \o <<99>>} ELSE {})

\* the length bytes tried: small ones and those around each driver's limit
LenBytes(chip) ==
    IF chip = "si443x" THEN {0, 1, 2, 3, 60, 61, 62, 255}
    ELSE {0, 1, 2, 3, 4, 63, 64, 65, 66, 255}

\* what the receive FIFO of the SX1231 may hold in variable-length mode: a
\* length byte and a payload of that length
Sx1231VarFifos ==
    UNION {{<<len>> \o p : p \in Sx1231Payloads(len)} : len \in LenBytes("sx1231")}

\* and in fixed-length mode, for the lengths the chip is configured with
Sx1231FixLens == {2, 4, 40, 64, 65, 127}

Sx1231FixFifos ==
    UNION {{[len |-> n, fifo |-> p] : p \in Sx1231Payloads(n)} : n \in Sx1231FixLens}

\* what the receive FIFO may hold when a packet is reported, for the framing
\* the handle d has
Fifos(chip, d) ==
    IF chip = "si443x"
    THEN LET hdr == [i \in 1..d.txhdlen |-> 20 + i]
         IN  IF d.fixpklen = 0
             THEN {hdr \o <<len>> \o [i \in 1..len |-> 100 + (i % 100)] :
                      len \in LenBytes(chip)}
             ELSE {hdr \o [i \in 1..d.fixpklen |-> 100 + (i % 100)]}
    ELSE IF d.fixpklen = 0 THEN Sx1231VarFifos
         ELSE IF d.fixpklen \in Sx1231FixLens
         THEN {r.fifo : r \in {q \in Sx1231FixFifos : q.len = d.fixpklen}}
         ELSE {Counting(d.fixpklen)}

\* of these, packets that are in range and one that is not
FewFifos(chip, d) ==
    LET at == IF chip = "si443x" THEN d.txhdlen + 1 ELSE 1
    IN  {f \in Fifos(chip, d) : d.fixpklen # 0 \/ f[at] \in {2, 62, 66}}

\* and one of them
OneFifo(chip, d) == CHOOSE f \in FewFifos(chip, d) : TRUE

\* the interrupt flags of the SX1231 at the start of a handle call and after
\* its polling: a packet ready, nothing, FIFO overrun, a packet still
\* arriving that completes, and one that is lost
IrqReady == [irq |-> <<IRQ_FLAGS1_SYNCADDRESSMATCH, IRQ_FLAGS2_PAYLOADREADY>>,
             irq_end |-> <<0, 0>>]

IrqCases ==
    {IrqReady,
     [irq |-> <<0, 0>>, irq_end |-> <<0, 0>>],
     [irq |-> <<0, IRQ_FLAGS2_FIFOOVERRUN>>, irq_end |-> <<0, 0>>],
     [irq |-> <<IRQ_FLAGS1_SYNCADDRESSMATCH, 0>>,
      irq_end |-> <<IRQ_FLAGS1_SYNCADDRESSMATCH, IRQ_FLAGS2_PAYLOADREADY>>],
     [irq |-> <<IRQ_FLAGS1_SYNCADDRESSMATCH, 0>>, irq_end |-> <<0, 0>>]}

\* the environment of a call in which every transfer succeeds, every flag is
\* set at once and the chip reports a packet without FIFO errors
CalmEnv(fifo) ==
    [fail_at |-> 0, polls |-> 0, ub |-> "continue", open_ok |-> TRUE, version |-> 0,
     st1 |-> 0, st2 |-> 0, irq |-> IrqReady.irq, irq_end |-> IrqReady.irq_end,
     fifo |-> fifo]

\* the inputs of rf_handle tried in a state: receptions into every receive
\* buffer, transmissions from every transmit buffer after a reception and
\* under every report of the chip, and failing or slow transfers
HandleInputs(chip, d) ==
    LET all  == Fifos(chip, d)
        few  == FewFifos(chip, d)
        one  == OneFifo(chip, d)
        si   == chip = "si443x"
    IN  {[rx |-> rx, tx |-> EmptyRing,
          sc |-> [CalmEnv(f) EXCEPT !.st2 = st2, !.ub = ub]] :
             rx \in RxRings, f \in all,
             st2 \in IF si THEN {0, DEVICE_STATUS_FFOVFL, DEVICE_STATUS_FFUNFL} ELSE {0},
             ub \in {"continue", "abort"}}
        \cup
        {[rx |-> EmptyRing, tx |-> tx,
          sc |-> [CalmEnv(f) EXCEPT !.st1 = st1, !.ub = ub]] :
             tx \in TxRings, f \in few,
             st1 \in IF si THEN {0, DEVICE_STATUS_RXFFEM} ELSE {0},
             ub \in {"continue", "abort"}}
        \cup
        {[rx |-> EmptyRing, tx |-> tx,
          sc |-> [CalmEnv(one) EXCEPT !.irq = c.irq, !.irq_end = c.irq_end]] :
             tx \in TxRings, c \in IF si THEN {IrqReady} ELSE IrqCases}
        \cup
        {[rx |-> EmptyRing, tx |-> tx,
          sc |-> [CalmEnv(f) EXCEPT !.fail_at = k, !.polls = n, !.st2 = st2]] :
             tx \in {EmptyRing, DrvRing(0, <<1, 7>>)}, f \in few,
             k \in 0..MaxFailAt, n \in 0..MaxPolls,
             st2 \in IF si THEN {0, DEVICE_STATUS_FFOVFL} ELSE {0}}

\* the value a configuration file gives the register at addr, where the
\* model does not care
RegValue(addr) == (addr * 3) % 128

\* the bitmap word w of a buffer in which the offsets of the set A are valid,
\* from bit b on
RECURSIVE valid_word_of(_, _, _)
valid_word_of(A, w, b) ==
    IF b >= UINT_BIT_CNT THEN 0
    ELSE (IF w * UINT_BIT_CNT + b \in A THEN 2^b ELSE 0) + valid_word_of(A, w, b + 1)

\* the register buffer after sparse_buf_write(a, vals[a]) for every address a
\* of vals, starting from a fresh one
RegsOf(vals) ==
    [size |-> REGS_SIZE,
     valid |-> [w \in 0..(valid_words(REGS_SIZE) - 1) |-> valid_word_of(DOMAIN vals, w, 0)],
     values |-> [o \in 0..(REGS_SIZE - 1) |-> IF o \in DOMAIN vals THEN vals[o] ELSE 0]]

\* addresses whose subsets give runs of every shape: at the start, in the
\* middle, next to each other and at the end of the address space
ShapeAddrs == {0, 1, 2, 4, 125, 126, 127}

FramingAddrs(chip) ==
    IF chip = "si443x" THEN <<HEADER_CONTROL_2, TRANSMIT_PACKET_LENGTH>>
    ELSE <<RegPacketConfig1, RegPayloadLength>>

\* values of the two framing registers: for the Si443x header lengths 0, 1
\* and 4 with and without fixed length, for the SX1231 both packet formats
FramingValues(chip) ==
    IF chip = "si443x"
    THEN [ctl : {0, 24, 64, 72}, len : {0, 2, 64, 255}]
    ELSE [ctl : {16, 144}, len : {0, 2, 4, 65, 127}]

\* register buffers handed to rf_init: runs of every shape of registers that
\* do not matter, every register the parser can fill, every register there
\* is, all but the first or the last the parser can fill, and settings of
\* the framing registers
RegsFamily(chip) ==
    {RegsOf([a \in A |-> RegValue(a)]) : A \in SUBSET ShapeAddrs}
    \cup {RegsOf([a \in 0..126 |-> RegValue(a)]), RegsOf([a \in 0..127 |-> RegValue(a)])}
    \cup {RegsOf([a \in 1..126 |-> RegValue(a)]), RegsOf([a \in 0..125 |-> RegValue(a)])}
    \cup {RegsOf((FramingAddrs(chip)[1] :> v.ctl) @@ (FramingAddrs(chip)[2] :> v.len)) :
             v \in FramingValues(chip)}
    \cup {RegsOf(FramingAddrs(chip)[1] :> v.ctl) : v \in FramingValues(chip)}

FewRegs(chip) ==
    {RegsOf([a \in {1, 2, 4} |-> RegValue(a)]),
     RegsOf((FramingAddrs(chip)[1] :> 24) @@ (FramingAddrs(chip)[2] :> 2))}

InitInputs(chip) ==
    {[regs |-> regs, sc |-> CalmEnv(<<>>)] : regs \in RegsFamily(chip)}
    \cup {[regs |-> regs, sc |-> [CalmEnv(<<>>) EXCEPT !.fail_at = k, !.polls = n]] :
             regs \in FewRegs(chip), k \in 0..MaxFailAt, n \in 0..MaxPolls}

\* values the version register may read as: the chip's, and another
Versions(chip) == IF chip = "si443x" THEN {DEVICE_TYPE_EZRADIOPRO, 7} ELSE {35, 19}

OpenInputs(chip) ==
    {[CalmEnv(<<>>) EXCEPT !.open_ok = ok, !.version = v, !.fail_at = k] :
        ok \in BOOLEAN, v \in Versions(chip), k \in 0..3}

\* the chip's registers when the daemon starts: as after power-on, or as an
\* earlier run left them
StartRegs(chip) ==
    {PowerOnRegs(chip),
     IF chip = "si443x"
     THEN (OPERATING_MODE_AND_FUNCTION_CONTROL_1 :> 5) @@ (OPERATING_MODE_AND_FUNCTION_CONTROL_2 :> 16)
             @@ (HEADER_CONTROL_2 :> 24) @@ (TRANSMIT_PACKET_LENGTH :> 2)
     ELSE (RegOpMode :> 16) @@ (RegPacketConfig1 :> 144) @@ (RegPayloadLength :> 64)}

\* the record of a call: drv_call after it returned
Call(name, stage, m, regs, sc) ==
    [name |-> name, stage |-> stage, ret |-> m.err, fault |-> m.fault, over |-> m.over,
     log |-> m.log, regs |-> regs, sc |-> sc,
     dev_pre |-> drv_dev, hw_pre |-> drv_hw, rx |-> m.rx, tx |-> m.tx]

\* the record m a call starts from
Enter(rx, tx, sc) ==
    [err |-> ERR_OK, fault |-> "none", log |-> <<>>, hw |-> drv_hw, fifo |-> sc.fifo,
     dev |-> drv_dev, rx |-> rx, tx |-> tx, over |-> FALSE]

\* main() between two driver calls
Between(stage) == [name |-> "none", stage |-> stage]

DrvInit ==
    /\ RingIdle
    /\ DaemonIdle
    /\ SparseIdle
    /\ ParserIdle
    /\ HexIdle
    /\ ArgIdle
    /\ drv_chip \in Chips
    /\ drv_dev = NoDev
    /\ drv_hw \in StartRegs(drv_chip)
    /\ drv_call = Between("closed")

\* what is left of the call: the device handle and the chip as the call left
\* them, and the record of the call
Leave(m, rx_pre, tx_pre, call) ==
    /\ drv_dev' = m.dev
    /\ drv_hw' = m.hw
    /\ drv_call' = call @@ [rx_pre |-> rx_pre, tx_pre |-> tx_pre]
    /\ UNCHANGED drv_chip
    /\ UNCHANGED <<ringVars, daemonVars, sparseVars, parserVars, hexVars, argVars>>

\* main(): rf_open
RfOpen ==
    /\ drv_call = Between("closed")
    /\ \E sc \in OpenInputs(drv_chip) :
          \E m \in {rf_open(drv_chip, Enter(EmptyRing, EmptyRing, sc), sc)} :
             Leave(m, EmptyRing, EmptyRing,
                    Call("rf_open", IF running(m) THEN "open" ELSE "dead", m, NoSparse, sc))

\* main(): rf_init, on an open device
RfInit ==
    /\ drv_call \in {Between("open"), Between("ready")}
    /\ \E in \in InitInputs(drv_chip) :
          \E m \in {rf_init(drv_chip, Enter(EmptyRing, EmptyRing, in.sc), in.sc, in.regs)} :
             Leave(m, EmptyRing, EmptyRing,
                    Call("rf_init", IF running(m) THEN "ready" ELSE "dead", m, in.regs, in.sc))

\* main(): rf_handle in the event loop, on the ring buffers as the clients
\* left them
RfHandle ==
    /\ drv_call = Between("ready")
    /\ \E in \in HandleInputs(drv_chip, drv_dev) :
          \E m \in {rf_handle(drv_chip, Enter(in.rx, in.tx, in.sc), in.sc)} :
             Leave(m, in.rx, in.tx,
                    Call("rf_handle", IF m.fault = "none" THEN "ready" ELSE "dead",
                         m, NoSparse, in.sc))

\* main(): the call returned; the loop ignores what rf_handle returned and
\* goes on to the sockets and to the next call, the process being gone
\* after a failed assertion or a crash
DrvReturn ==
    /\ drv_call.name # "none"
    /\ drv_call.stage # "dead"
    /\ drv_call' = Between(drv_call.stage)
    /\ UNCHANGED <<drv_chip, drv_dev, drv_hw>>
    /\ UNCHANGED <<ringVars, daemonVars, sparseVars, parserVars, hexVars, argVars>>

DrvNext == RfOpen \/ RfInit \/ RfHandle \/ DrvReturn

SpecDriver == DrvInit /\ [][DrvNext]_vars

----------------------------------------------------------------------------
(* Si443x RX-FIFO recovery *)

\* the driver call just made is a call of name on chip
Called(chip, name) == drv_chip = chip /\ drv_call.name = name

\* the transactions of the call just made that are reads of addr
ReadsOf(addr) ==
    {i \in 1..Len(drv_call.log) : drv_call.log[i].rw = "r" /\ drv_call.log[i].addr = addr}

\* and those that are writes of addr
WritesOf(addr) ==
    {i \in 1..Len(drv_call.log) : drv_call.log[i].rw = "w" /\ drv_call.log[i].addr = addr}

\* the call just made was a handle call of the Si443x that came to its
\* recovery: only the recovery reads control-1
Recovered ==
    /\ Called("si443x", "rf_handle")
    /\ ReadsOf(OPERATING_MODE_AND_FUNCTION_CONTROL_1) # {}

\* where the recovery starts in the transactions of the call, and its
\* transactions
RecoveryAt == CHOOSE i \in ReadsOf(OPERATING_MODE_AND_FUNCTION_CONTROL_1) : TRUE

RecoveryLog == SubSeq(drv_call.log, RecoveryAt, Len(drv_call.log))

\* the steps the recovery is to take when control-1 and control-2 read as ctrl
RecoverySteps(ctrl) ==
    LET c1   == OPERATING_MODE_AND_FUNCTION_CONTROL_1
        c2   == OPERATING_MODE_AND_FUNCTION_CONTROL_2
        rxon == word_and(ctrl[1], OPERATING_MODE_AND_FUNCTION_CONTROL_1_RXON) # 0
        off  == [rw |-> "w", addr |-> c1,
                 data |-> <<bit_clear(ctrl[1], OPERATING_MODE_AND_FUNCTION_CONTROL_1_RXON)>>]
        on   == [rw |-> "w", addr |-> c1, data |-> <<ctrl[1]>>]
    IN  <<[rw |-> "r", addr |-> c1, data |-> ctrl]>>
            \o (IF rxon THEN <<off>> ELSE <<>>)
            \o <<[rw |-> "w", addr |-> c2,
                  data |-> <<bit_set(ctrl[2], OPERATING_MODE_AND_FUNCTION_CONTROL_2_FFCLRRX)>>],
                 [rw |-> "w", addr |-> c2,
                  data |-> <<bit_clear(ctrl[2], OPERATING_MODE_AND_FUNCTION_CONTROL_2_FFCLRRX)>>]>>
            \o (IF rxon THEN <<on>> ELSE <<>>)

\* s is the beginning of t
IsPrefix(s, t) == Len(s) <= Len(t) /\ s = SubSeq(t, 1, Len(s))

\* control-1 as the chip has it when transaction i of the call is made
Ctrl1Before(i) ==
    LET ws == {j \in WritesOf(OPERATING_MODE_AND_FUNCTION_CONTROL_1) : j < i}
    IN  IF ws = {} THEN drv_call.hw_pre[OPERATING_MODE_AND_FUNCTION_CONTROL_1]
        ELSE drv_call.log[CHOOSE j \in ws : \A k \in ws : k <= j].data[1]

\* the call just made returned without an error and without a fault
Succeeded == drv_call.fault = "none" /\ drv_call.ret = ERR_OK

\* C30: the recovery of the Si443x reads control-1 and control-2 once, as the
\* chip has them, and then takes its steps in order for as long as they
\* succeed: RXON cleared if it was set, FFCLRRX set, FFCLRRX cleared, control-1
\* restored if RXON was set; when all succeed, RXON is as it was and FFCLRRX
\* is clear; and no write of control-2 is made while RXON is set
C30_RecoveryOrder ==
    Recovered =>
        LET ctrl == <<drv_call.hw_pre[OPERATING_MODE_AND_FUNCTION_CONTROL_1],
                      drv_call.hw_pre[OPERATING_MODE_AND_FUNCTION_CONTROL_2]>>
        IN  /\ Cardinality(ReadsOf(OPERATING_MODE_AND_FUNCTION_CONTROL_1)) = 1
            /\ IsPrefix(RecoveryLog, RecoverySteps(ctrl))
            /\ Succeeded =>
                  /\ RecoveryLog = RecoverySteps(ctrl)
                  /\ word_and(drv_hw[OPERATING_MODE_AND_FUNCTION_CONTROL_1],
                              OPERATING_MODE_AND_FUNCTION_CONTROL_1_RXON)
                       = word_and(ctrl[1], OPERATING_MODE_AND_FUNCTION_CONTROL_1_RXON)
                  /\ word_and(drv_hw[OPERATING_MODE_AND_FUNCTION_CONTROL_2],
                              OPERATING_MODE_AND_FUNCTION_CONTROL_2_FFCLRRX) = 0
            /\ \A i \in WritesOf(OPERATING_MODE_AND_FUNCTION_CONTROL_2) :
                  word_and(Ctrl1Before(i), OPERATING_MODE_AND_FUNCTION_CONTROL_1_RXON) = 0

\* a recovery that found the receiver enabled and took all five steps
C30_Witness ==
    /\ Recovered
    /\ Succeeded
    /\ Len(RecoveryLog) = 5
    /\ word_and(drv_hw[OPERATING_MODE_AND_FUNCTION_CONTROL_1],
                OPERATING_MODE_AND_FUNCTION_CONTROL_1_RXON) # 0

\* a recovery that found the receiver disabled and pulsed FFCLRRX only
C30_WitnessOff ==
    /\ Recovered
    /\ Succeeded
    /\ Len(RecoveryLog) = 3

----------------------------------------------------------------------------
(* Applying the configuration *)

\* the addresses the register buffer regs holds a value for
ValidSet(regs) == {a \in 0..(regs.size - 1) : sparse_buf_is_valid(regs, a)}

\* one write per maximal run of the addresses V, in ascending order of
\* address, of the values stored in regs
RunWritesOf(regs, V) ==
    LET starts == {a \in V : a - 1 \notin V}
        ends   == {b \in V : b + 1 \notin V}
    IN  [k \in 1..Cardinality(starts) |->
            LET a == CHOOSE x \in starts : Cardinality({y \in starts : y < x}) = k - 1
                b == CHOOSE x \in ends : Cardinality({y \in ends : y < x}) = k - 1
            IN  [rw |-> "w", addr |-> a,
                 data |-> [i \in 1..(b - a + 1) |-> regs.values[a + i - 1]]]]

\* where the writes of _configure start in the transactions of rf_init: the
\* Si443x is reset before, with one write and the reads of its polling
ConfigStart == IF drv_chip = "si443x" THEN drv_call.sc.polls + 3 ELSE 1

\* the transactions from ConfigStart up to the first read, with which
\* _sync_config starts
ConfigLog ==
    LET reads == {i \in ConfigStart..Len(drv_call.log) : drv_call.log[i].rw = "r"}
        stop  == IF reads = {} THEN Len(drv_call.log) + 1
                 ELSE CHOOSE i \in reads : \A j \in reads : i <= j
    IN  SubSeq(drv_call.log, ConfigStart, stop - 1)

\* the loop of _configure was not left early by a transfer that returned an
\* error: _sync_config was reached, or the SPI layer stopped the process
ConfigLoopDone ==
    \/ Len(drv_call.log) >= ConfigStart + Len(ConfigLog)
    \/ drv_call.fault = "assert"

\* the writes of _configure in the call, the valid addresses V and the
\* writes due agree: the writes made are the first of those due, all of
\* them if the loop was not left early, and none goes to an address
\* outside V
ConfigAgrees(log, V, due) ==
    /\ IsPrefix(log, due)
    /\ ConfigLoopDone /\ Len(drv_call.log) >= ConfigStart - 1 => log = due
    /\ \A i \in 1..Len(log) :
          \A a \in log[i].addr..(log[i].addr + Len(log[i].data) - 1) : a \in V

ConfigAgreesOn(V) == ConfigAgrees(ConfigLog, V, RunWritesOf(drv_call.regs, V))

\* C28: for every register buffer, _configure issues its writes in ascending
\* order of address, one per maximal run of valid addresses, with the run's
\* start, length and stored values, so that the addresses written are the
\* valid ones and no other; it stops only at a transfer that fails; and its
\* loop terminates
C28_ConfigureRuns ==
    drv_call.name = "rf_init" =>
        /\ drv_call.fault # "hang"
        /\ ConfigAgreesOn(ValidSet(drv_call.regs))

\* a configuration of several runs, one of them longer than a register,
\* applied whole
C28_Witness ==
    /\ drv_call.name = "rf_init"
    /\ Succeeded
    /\ Len(ConfigLog) >= 3
    /\ ConfigLog = RunWritesOf(drv_call.regs, ValidSet(drv_call.regs))
    /\ \E i \in 1..Len(ConfigLog) : Len(ConfigLog[i].data) >= 2

\* a configuration whose last run the SPI layer refuses: the write is issued
\* all the same
C28_WitnessRefused ==
    /\ drv_call.name = "rf_init"
    /\ drv_call.fault = "assert"
    /\ Len(ConfigLog) >= 2

----------------------------------------------------------------------------
(* The framing state of the device handle *)

\* the header length and fixed packet length the framing registers hw of the
\* chip stand for; the SX1231 driver neither sets nor uses a header length
FramingOf(chip, hw) ==
    IF chip = "si443x"
    THEN [txhdlen  |-> (hw[HEADER_CONTROL_2] \div 16) % 8,
          fixpklen |-> IF (hw[HEADER_CONTROL_2] \div 8) % 2 = 1
                       THEN hw[TRANSMIT_PACKET_LENGTH] ELSE 0]
    ELSE [txhdlen  |-> 0,
          fixpklen |-> IF hw[RegPacketConfig1] >= 128 THEN 0 ELSE hw[RegPayloadLength]]

\* the device handle is open
DevOpen == drv_call.stage \in {"open", "ready"}

\* the registers that enable the receiver
EnableAddrs ==
    IF drv_chip = "si443x"
    THEN {OPERATING_MODE_AND_FUNCTION_CONTROL_1, OPERATING_MODE_AND_FUNCTION_CONTROL_2}
    ELSE {RegOpMode}

\* in a successful rf_init the read that starts _sync_config follows the last
\* write of _configure at once, and all that follows it are reads and the
\* writes that enable the receiver, of which there is one at least
SyncInPlace ==
    LET at == ConfigStart + Len(ConfigLog)
    IN  /\ at <= Len(drv_call.log)
        /\ drv_call.log[at].rw = "r"
        /\ drv_call.log[at].addr = FramingAddrs(drv_chip)[1]
        /\ \A i \in at..Len(drv_call.log) :
              drv_call.log[i].rw = "w" => drv_call.log[i].addr \in EnableAddrs
        /\ \E i \in at..Len(drv_call.log) : drv_call.log[i].rw = "w"

\* C29: whenever the device is open (after a successful rf_open, after every
\* successful rf_init, and so at every rf_handle call) the header length and
\* fixed packet length of the device handle are those of the chip's framing
\* registers; and in a successful rf_init they are read back after the last
\* configuration write and before the receiver is enabled
C29_FramingInSync ==
    /\ DevOpen =>
          /\ drv_chip = "si443x" => drv_dev.txhdlen = FramingOf(drv_chip, drv_hw).txhdlen
          /\ drv_dev.fixpklen = FramingOf(drv_chip, drv_hw).fixpklen
    /\ drv_call.name = "rf_init" /\ Succeeded => SyncInPlace

\* a successful rf_init whose configuration changed the framing to a fixed
\* packet length
C29_Witness ==
    /\ drv_call.name = "rf_init"
    /\ Succeeded
    /\ drv_dev # drv_call.dev_pre
    /\ drv_dev.fixpklen # 0
    /\ Len(ConfigLog) >= 1

\* a successful rf_open that found the framing an earlier run left
C29_WitnessOpen ==
    /\ drv_call.name = "rf_open"
    /\ Succeeded
    /\ drv_dev.fixpklen # 0 \/ drv_dev.txhdlen # 0

----------------------------------------------------------------------------
(* The transmit step of the SX1231 *)

\* what the call just made started from
CallEntry ==
    [err |-> ERR_OK, fault |-> "none", log |-> <<>>, hw |-> drv_call.hw_pre,
     fifo |-> drv_call.sc.fifo, dev |-> drv_call.dev_pre,
     rx |-> drv_call.rx_pre, tx |-> drv_call.tx_pre, over |-> FALSE]

\* the call just made was a handle call of the SX1231, and m1 is what it came
\* to before its transmit step: the step was taken
TxStepTaken(m1) ==
    /\ running(m1)
    /\ ~ring_buf_empty(drv_call.tx_pre)

\* the transactions of the transmit step, those after the ones of m1
TxLog(m1) == SubSeq(drv_call.log, Len(m1.log) + 1, Len(drv_call.log))

\* the length of the next frame to send is 0 or more than a FIFO holds
TxOutOfRange(m1) == send_pktlen(m1) = 0 \/ send_pktlen(m1) > 65

\* the transmit step reported the fault and did nothing else
TxOutOfSync(m1) ==
    /\ drv_call.ret = ERR_RFM_TX_OUT_OF_SYNC
    /\ drv_call.fault = "none"
    /\ TxLog(m1) = <<>>
    /\ drv_call.tx = drv_call.tx_pre

\* C22: a handle call of the SX1231 that comes to its transmit step with a
\* transmit buffer that is not empty and a next frame length (the first
\* buffered byte in variable-length mode, the configured length in
\* fixed-length mode) of 0 or more than 65 returns ERR_RFM_TX_OUT_OF_SYNC,
\* makes no transaction for the transmission (no mode switch, no FIFO write)
\* and leaves the transmit buffer as it was
C22_TxOutOfSync ==
    Called("sx1231", "rf_handle") =>
        \A m1 \in {sx1231_handle_rx(CallEntry, drv_call.sc)} :
            TxStepTaken(m1) /\ TxOutOfRange(m1) => TxOutOfSync(m1)

\* a transmit buffer that starts with a byte 0 in variable-length mode, after
\* a reception that was handled
C22_Witness ==
    /\ Called("sx1231", "rf_handle")
    /\ drv_call.dev_pre.fixpklen = 0
    /\ ~ring_buf_empty(drv_call.tx_pre)
    /\ drv_call.tx_pre.buf[ring_buf_begin(drv_call.tx_pre)] = 0
    /\ drv_call.ret = ERR_RFM_TX_OUT_OF_SYNC
    /\ Len(drv_call.log) >= 2

\* a transmit buffer that starts with a byte above 65, and one under a fixed
\* length above 65
C22_WitnessLong ==
    /\ Called("sx1231", "rf_handle")
    /\ drv_call.ret = ERR_RFM_TX_OUT_OF_SYNC
    /\ \/ drv_call.dev_pre.fixpklen = 0
          /\ drv_call.tx_pre.buf[ring_buf_begin(drv_call.tx_pre)] > 65
       \/ drv_call.dev_pre.fixpklen > 65

\* the bytes of the whole next frame: the length prefix, if any, and the
\* payload
TxFrameLen(m1) == send_hdrlen(m1) + send_pktlen(m1)

\* C21: the transmit step of the SX1231 removes bytes from the transmit
\* buffer only when the whole next frame is buffered, and then the frame and
\* no more; otherwise it leaves the buffer and the chip's mode as they were
\* and returns without an error; it never removes more bytes than are used
C21_NoPartialSend ==
    Called("sx1231", "rf_handle") =>
        \A m1 \in {sx1231_handle_rx(CallEntry, drv_call.sc)} :
            TxStepTaken(m1) /\ ~TxOutOfRange(m1) =>
                IF TxFrameLen(m1) <= ring_buf_bytes_used(drv_call.tx_pre)
                THEN drv_call.tx \in {drv_call.tx_pre,
                                      ring_buf_consume(drv_call.tx_pre, TxFrameLen(m1))}
                ELSE /\ drv_call.tx = drv_call.tx_pre
                     /\ TxLog(m1) = <<>>
                     /\ Succeeded

\* the failing input: in variable-length mode the buffer holds the length
\* prefix 2 and one byte less than the frame, and a frame of 2 bytes is sent
C21_FailingInput ==
    /\ Called("sx1231", "rf_handle")
    /\ drv_call.dev_pre.fixpklen = 0
    /\ ring_buf_bytes_used(drv_call.tx_pre) = 2
    /\ drv_call.tx_pre.buf[ring_buf_begin(drv_call.tx_pre)] = 2
    /\ \E i \in 1..Len(drv_call.log) :
          /\ drv_call.log[i].rw = "w"
          /\ drv_call.log[i].addr = RegFifo
          /\ Len(drv_call.log[i].data) = 2

\* in fixed-length mode the step keeps to the claim
C21_FixedLength ==
    Called("sx1231", "rf_handle") /\ drv_call.dev_pre.fixpklen # 0 => C21_NoPartialSend

----------------------------------------------------------------------------
(* Framing anomalies *)

\* transaction i of the call just made was carried out: it is not the one
\* that failed or was refused
Carried(i) ==
    /\ i \in 1..Len(drv_call.log)
    /\ i # drv_call.sc.fail_at
    /\ i < Len(drv_call.log) \/ drv_call.fault # "assert"

\* no transaction of the call failed
NoSpiFailure == \A i \in 1..Len(drv_call.log) : i # drv_call.sc.fail_at

\* the first read of the FIFO in the call, which is the read of the header
\* in variable-length mode; 0 if there is none
HeaderRead(fifo_addr) ==
    LET reads == ReadsOf(fifo_addr)
    IN  IF reads = {} THEN 0 ELSE CHOOSE i \in reads : \A j \in reads : i <= j

\* the length byte the header read brought, its last byte
LengthByte(i) == drv_call.log[i].data[Len(drv_call.log[i].data)]

\* the Si443x in variable-length mode read a length byte above 61
Si443xOversize ==
    /\ Called("si443x", "rf_handle")
    /\ drv_call.dev_pre.fixpklen = 0
    /\ Carried(HeaderRead(FIFO_ACCESS))
    /\ LengthByte(HeaderRead(FIFO_ACCESS)) > 61

\* the Si443x read the device status after the payload and found FIFO
\* overflow or underflow flagged
Si443xFifoError ==
    /\ Called("si443x", "rf_handle")
    /\ \E i \in ReadsOf(DEVICE_STATUS) :
          /\ i > 1
          /\ Carried(i)
          /\ \/ (drv_call.log[i].data[1] \div 128) % 2 = 1
             \/ (drv_call.log[i].data[1] \div 64) % 2 = 1

\* the SX1231 in variable-length mode read a length byte of 0 or above 65
Sx1231BadLength ==
    /\ Called("sx1231", "rf_handle")
    /\ drv_call.dev_pre.fixpklen = 0
    /\ Carried(HeaderRead(RegFifo))
    /\ \/ LengthByte(HeaderRead(RegFifo)) = 0
       \/ LengthByte(HeaderRead(RegFifo)) > 65

\* the recovery of the SX1231 in the transactions log: after the header read
\* the chip is switched to standby and, later, back to receiving
Sx1231Recovered(log) ==
    \E i, j \in 1..Len(log) :
        /\ HeaderRead(RegFifo) < i /\ i < j
        /\ log[i] = [rw |-> "w", addr |-> RegOpMode, data |-> <<OP_MODE_MODE_STDBY>>]
        /\ log[j] = [rw |-> "w", addr |-> RegOpMode, data |-> <<OP_MODE_MODE_RX>>]

\* C25: a handle call that reads a length byte out of range (Si443x: above
\* 61; SX1231: 0 or above 65) or, on the Si443x, finds FIFO overflow or
\* underflow flagged after the payload read, runs the recovery of the receive
\* FIFO and appends nothing to the receive buffer; it returns success if no
\* transaction of the recovery fails, and on the SX1231 a result other than
\* success comes from a failed transaction or from the transmit step only
C25_AnomalyAbsorbed ==
    /\ Si443xOversize \/ Si443xFifoError =>
          /\ Recovered
          /\ drv_call.rx = drv_call.rx_pre
          /\ drv_call.fault = "none"
          /\ NoSpiFailure => drv_call.ret = ERR_OK
    /\ Sx1231BadLength =>
          \A m1 \in {sx1231_handle_rx(CallEntry, drv_call.sc)} :
              /\ drv_call.rx = drv_call.rx_pre
              /\ IsPrefix(m1.log, drv_call.log)
              /\ NoSpiFailure => running(m1) /\ Sx1231Recovered(m1.log)
              /\ NoSpiFailure /\ ring_buf_empty(drv_call.tx_pre) => Succeeded

\* an oversize length byte on the Si443x, absorbed
C25_Witness ==
    /\ Si443xOversize
    /\ Succeeded
    /\ Len(RecoveryLog) = 5

\* overflow flagged on the Si443x after a payload was read, absorbed
C25_WitnessFlag ==
    /\ Si443xFifoError
    /\ ~Si443xOversize
    /\ Succeeded

\* a length byte of 0 on the SX1231, absorbed
C25_WitnessZero ==
    /\ Sx1231BadLength
    /\ LengthByte(HeaderRead(RegFifo)) = 0
    /\ Succeeded

----------------------------------------------------------------------------
(* Delivery of received packets *)

\* the bytes the call just made read from the FIFO at fifo_addr, in the order
\* it read them: the header bytes and then the payload
RECURSIVE FifoBytesFrom(_, _)
FifoBytesFrom(fifo_addr, i) ==
    IF i > Len(drv_call.log) THEN <<>>
    ELSE (IF drv_call.log[i].rw = "r" /\ drv_call.log[i].addr = fifo_addr /\ Carried(i)
          THEN drv_call.log[i].data ELSE <<>>)
             \o FifoBytesFrom(fifo_addr, i + 1)

\* the Si443x accepted a packet: it read one, without an oversize length
\* byte and without FIFO overflow or underflow flagged after it
Si443xAccepted ==
    /\ Called("si443x", "rf_handle")
    /\ Succeeded
    /\ ReadsOf(FIFO_ACCESS) # {}
    /\ ~Recovered

\* the SX1231 accepted a packet: it read one of a valid length whose CRC
\* matched, by the driver's own test
Sx1231Accepted(buf) ==
    /\ Called("sx1231", "rf_handle")
    /\ \A m1 \in {sx1231_handle_rx(CallEntry, drv_call.sc)} :
          running(m1) /\ IsPrefix(m1.log, drv_call.log)
    /\ ReadsOf(RegFifo) # {}
    /\ ~Sx1231BadLength
    /\ LET hdrlen == IF drv_call.dev_pre.fixpklen = 0 THEN 1 ELSE 0
       IN  /\ Len(buf) - hdrlen >= 2
           /\ crc_match(buf, hdrlen, Len(buf) - hdrlen - 2)

\* the packet buf was delivered whole: it is what the receive buffer gained
Verbatim(buf) ==
    ring_buf_bytes_free(drv_call.rx_pre) >= Len(buf) =>
        drv_call.rx = ring_buf_add(drv_call.rx_pre, buf)

\* C23: for every packet a driver accepts and that fits in the receive
\* buffer, the bytes appended to it are the header bytes and all payload
\* bytes read from the FIFO, in order, with nothing removed or altered
C23_Verbatim ==
    /\ Si443xAccepted => Verbatim(FifoBytesFrom(FIFO_ACCESS, 1))
    /\ \A buf \in {IF Called("sx1231", "rf_handle") THEN FifoBytesFrom(RegFifo, 1) ELSE <<>>} :
          Sx1231Accepted(buf) => Verbatim(buf)

\* the failing input: the SX1231 at a fixed length of 4 receives two bytes
\* followed by their CRC, and the receive buffer gains two bytes
C23_FailingInput ==
    /\ Called("sx1231", "rf_handle")
    /\ drv_call.dev_pre.fixpklen = 4
    /\ Sx1231Accepted(FifoBytesFrom(RegFifo, 1))
    /\ ring_buf_bytes_free(drv_call.rx_pre) >= 4
    /\ ring_buf_bytes_used(drv_call.rx) = ring_buf_bytes_used(drv_call.rx_pre) + 2

\* the Si443x delivers what it read
C23_Si443x == Si443xAccepted => Verbatim(FifoBytesFrom(FIFO_ACCESS, 1))

\* a packet of the Si443x with a header, delivered
C23_Si443xWitness ==
    /\ Si443xAccepted
    /\ drv_call.dev_pre.txhdlen > 0
    /\ ring_buf_bytes_used(drv_call.rx) > ring_buf_bytes_used(drv_call.rx_pre)

----------------------------------------------------------------------------
(* Undelivered data is never overwritten *)

\* the bytes the receive buffer gained in the call just made
RxGain ==
    ring_buf_bytes_used(drv_call.rx) - ring_buf_bytes_used(drv_call.rx_pre)

\* the packet the call accepted is longer than the free space it found
Si443xNoRoom ==
    /\ Si443xAccepted
    /\ Len(FifoBytesFrom(FIFO_ACCESS, 1)) > ring_buf_bytes_free(drv_call.rx_pre)

Sx1231NoRoom ==
    /\ Called("sx1231", "rf_handle")
    /\ \A buf \in {FifoBytesFrom(RegFifo, 1)} :
          /\ Sx1231Accepted(buf)
          /\ Len(buf) - 2 > ring_buf_bytes_free(drv_call.rx_pre)

\* C31: in both drivers an rf_handle call either leaves the receive buffer
\* as it found it, or appends at most as many bytes as were free, behind the
\* bytes already queued, which all stay in place; an accepted packet that
\* does not fit is dropped and leaves the buffer unchanged
C31_NoOverwrite ==
    drv_call.name = "rf_handle" =>
        /\ \/ drv_call.rx = drv_call.rx_pre
           \/ /\ RxGain >= 0
              /\ RxGain <= ring_buf_bytes_free(drv_call.rx_pre)
              /\ IsPrefix(Contents(drv_call.rx_pre), Contents(drv_call.rx))
        /\ drv_call.rx # drv_call.rx_pre => ~(Si443xNoRoom \/ Sx1231NoRoom)

\* a packet appended behind bytes still queued
C31_Witness ==
    /\ drv_call.name = "rf_handle"
    /\ ~ring_buf_empty(drv_call.rx_pre)
    /\ RxGain > 0

\* an accepted packet dropped for lack of room, in each driver
C31_WitnessDropSi ==
    Si443xNoRoom /\ ~ring_buf_empty(drv_call.rx_pre)

C31_WitnessDropSx ==
    Sx1231NoRoom /\ ~ring_buf_empty(drv_call.rx_pre)

----------------------------------------------------------------------------
(* The transmit FIFO fill *)

\* the transactions of the call just made that write RegFifo after the
\* transactions of m1
TxFifoWrites(m1) == {i \in WritesOf(RegFifo) : i > Len(m1.log)}

\* the write of RegFifo carries the first n bytes queued when the call was
\* made, in order, and those n bytes are what the transmit buffer lost
FifoFillIs(i, n) ==
    /\ drv_call.log[i].data = SubSeq(Contents(drv_call.tx_pre), 1, n)
    /\ drv_call.tx = ring_buf_consume(drv_call.tx_pre, n)

\* C32: when the SX1231 transmits a frame that is buffered whole, the bytes
\* written to RegFifo in one multi-register write are exactly the bytes
\* removed from the transmit buffer for it, length prefix and payload, same
\* count and same order
C32_FifoFill ==
    Called("sx1231", "rf_handle") =>
        \A m1 \in {sx1231_handle_rx(CallEntry, drv_call.sc)} :
            /\ TxStepTaken(m1)
            /\ TxFrameLen(m1) <= ring_buf_bytes_used(drv_call.tx_pre)
            => /\ Cardinality(TxFifoWrites(m1)) <= 1
               /\ \A i \in TxFifoWrites(m1) : FifoFillIs(i, TxFrameLen(m1))

\* the failing input: in variable-length mode the buffer holds the frame
\* <<2, 7, 8>>; the three bytes are removed and <<2, 7>> is written to the
\* FIFO
C32_FailingInput ==
    /\ Called("sx1231", "rf_handle")
    /\ drv_call.dev_pre.fixpklen = 0
    /\ Contents(drv_call.tx_pre) = <<2, 7, 8>>
    /\ ring_buf_empty(drv_call.tx)
    /\ \E i \in WritesOf(RegFifo) : drv_call.log[i].data = <<2, 7>>

\* in fixed-length mode, where there is no length prefix, the write carries
\* what was removed
C32_FixedLength ==
    Called("sx1231", "rf_handle") /\ drv_call.dev_pre.fixpklen # 0 => C32_FifoFill

C32_FixedLengthWitness ==
    /\ Called("sx1231", "rf_handle")
    /\ drv_call.dev_pre.fixpklen # 0
    /\ WritesOf(RegFifo) # {}
    /\ ~ring_buf_empty(drv_call.tx)

----------------------------------------------------------------------------
(* The position of the local CRC check *)

\* the length prefix of the SX1231's packets: 1 byte in variable-length mode
RxHdrLen == IF drv_call.dev_pre.fixpklen = 0 THEN 1 ELSE 0

\* the call just made read a whole packet buf from the FIFO of the SX1231:
\* the length prefix, if any and in range, and a payload of the length it or
\* the configuration gives
Sx1231Read(buf) ==
    /\ Called("sx1231", "rf_handle")
    /\ \A m1 \in {sx1231_handle_rx(CallEntry, drv_call.sc)} :
          running(m1) /\ IsPrefix(m1.log, drv_call.log)
    /\ ReadsOf(RegFifo) # {}
    /\ ~Sx1231BadLength
    /\ Len(buf) > RxHdrLen
    /\ Len(buf) = RxHdrLen + (IF RxHdrLen = 1 THEN buf[1] ELSE drv_call.dev_pre.fixpklen)

\* the payload of buf ends with the CRC-16 of all payload bytes before its
\* last two
CrcAtEnd(buf) ==
    LET payload == SubSeq(buf, RxHdrLen + 1, Len(buf))
        n       == Len(payload)
    IN  /\ n >= 2
        /\ crc_bytes(SubSeq(payload, 1, n - 2)) = SubSeq(payload, n - 1, n)

\* the driver's own test on buf: the packet is kept
CrcKept(buf) ==
    /\ Len(buf) - RxHdrLen >= 2
    /\ crc_match(buf, RxHdrLen, Len(buf) - RxHdrLen - 2)

\* C33: for every packet the SX1231 driver reads, in fixed-length and in
\* variable-length mode, the driver's CRC test passes exactly when the final
\* two payload bytes are the big-endian CRC-16 of every payload byte before
\* them (a payload shorter than 2 bytes never passes), and a packet that
\* fails it is never appended to the receive buffer
C33_CrcPosition ==
    Called("sx1231", "rf_handle") =>
        \A buf \in {FifoBytesFrom(RegFifo, 1)} :
            Sx1231Read(buf) =>
                /\ CrcKept(buf) <=> CrcAtEnd(buf)
                /\ ~CrcKept(buf) => drv_call.rx = drv_call.rx_pre

\* the failing input: in variable-length mode the FIFO holds the length 4,
\* two data bytes and their CRC-16, and the packet is dropped
C33_FailingInput ==
    /\ Called("sx1231", "rf_handle")
    /\ drv_call.dev_pre.fixpklen = 0
    /\ ring_buf_empty(drv_call.rx_pre)
    /\ Succeeded
    /\ \A buf \in {FifoBytesFrom(RegFifo, 1)} :
          /\ Sx1231Read(buf)
          /\ buf[1] = 4
          /\ CrcAtEnd(buf)
          /\ drv_call.rx = drv_call.rx_pre

\* and a packet whose CRC comes one byte early is delivered
C33_FailingInputEarly ==
    /\ Called("sx1231", "rf_handle")
    /\ drv_call.dev_pre.fixpklen = 0
    /\ \A buf \in {FifoBytesFrom(RegFifo, 1)} :
          /\ Sx1231Read(buf)
          /\ buf[1] = 4
          /\ ~CrcAtEnd(buf)
          /\ RxGain = 3

\* in fixed-length mode the comparison is where the claim puts it
C33_FixedLength ==
    Called("sx1231", "rf_handle") /\ drv_call.dev_pre.fixpklen # 0 => C33_CrcPosition

C33_FixedLengthWitness ==
    /\ Called("sx1231", "rf_handle")
    /\ drv_call.dev_pre.fixpklen = 4
    /\ RxGain = 2
    /\ \A buf \in {FifoBytesFrom(RegFifo, 1)} : Sx1231Read(buf) /\ CrcAtEnd(buf)

----------------------------------------------------------------------------
(* Cleanup after a failed startup *)

\* the process has ended because the transceiver could not be opened or
\* initialized
StartupAborted == pc = "exited" /\ exit_cause \in {"open", "init"}

\* C34: when opening or initializing the transceiver fails, the process ends
\* without entering the event loop and holds nothing it created: the
\* transceiver descriptor, the server socket and any client descriptor are
\* closed and the socket file is unlinked
C34_StartupCleanup ==
    StartupAborted =>
        /\ conn_count = 0
        /\ iter_log = <<>>
        /\ DevFd \notin open_fds
        /\ SockFd \notin open_fds
        /\ open_fds = {}
        /\ ~sock_file

\* the failing input: the transceiver is opened, its initialization fails,
\* and the process ends with the transceiver descriptor still open
C34_FailingInput ==
    /\ pc = "exited"
    /\ exit_cause = "init"
    /\ open_fds = {DevFd}
    /\ ~sock_file

\* when it is the open that fails, everything created is released
C34_OpenFailure == exit_cause = "open" => C34_StartupCleanup

C34_OpenFailureWitness == StartupAborted /\ exit_cause = "open" /\ open_fds = {}

----------------------------------------------------------------------------
(* Client-socket failures *)

\* main() stands inside the event loop
InLoop == pc \in {"select", "check", "service", "write", "handle"}

\* main() services the client socket: pselect reported the client and no
\* pending connection
ServicingClient == pc \in {"service", "write"} /\ sel.r > 0 /\ ~sel.rd_sock

\* C35: a step that services the client socket never leaves the event loop
\* and never touches the server socket, the socket file, the transceiver
\* descriptor or the exit status; when it goes back to the top of the loop
\* (the read returned 0 or an error, or the write failed) it has closed the
\* client's descriptor and only that one, and client_fd is -1.  Throughout
\* the loop the server socket is open and watched, so a later connection is
\* accepted.
C35_ClientFailureLocal ==
    /\ [][(ServicingClient /\ pc' # pc) =>
             /\ pc' \in {"write", "handle", "select"}
             /\ exit_status' = "none"
             /\ retval' = retval
             /\ exit_cause' = exit_cause
             /\ sock_fd' = sock_fd
             /\ sock_file' = sock_file
             /\ open_fds' \cap {SockFd, DevFd} = open_fds \cap {SockFd, DevFd}
             /\ pc' = "select" =>
                   /\ client_fd # -1
                   /\ client_fd' = -1
                   /\ ClientFd(client_fd) \in open_fds
                   /\ open_fds' = open_fds \ {ClientFd(client_fd)}
             /\ pc' # "select" => open_fds' = open_fds /\ client_fd' = client_fd]_vars
    /\ [](InLoop => sock_fd # -1 /\ sock_file /\ {SockFd, DevFd} \subseteq open_fds)

\* the last connection the model lets in was closed by a failed read or
\* write (no connection was pending since it was accepted), and the loop
\* goes on
C35_Witness ==
    /\ pc = "select"
    /\ client_fd = -1
    /\ conn_count = MaxConns
    /\ exit_status = "none"
    /\ open_fds = {SockFd, DevFd}

\* a connection accepted when the earlier client was already gone
C35_WitnessAccept ==
    /\ pc = "handle"
    /\ conn_count >= 2
    /\ client_fd = conn_count
    /\ Len(iter_log) = 2
    /\ iter_log[1] = <<"accept", conn_count>>

----------------------------------------------------------------------------
(* The configuration's writes and the SPI transport *)

\* the register buffer is one the configuration parser can produce: it never
\* stores address 0x7F
ParserRegs(regs) == ValidSet(regs) \subseteq 0..126

\* the write op is one the SPI transport takes: address top bit clear,
\* length below 0x7F, and the run ends within the address space
WriteAccepted(op) ==
    /\ word_and(op.addr, 128) = 0
    /\ Len(op.data) < 127
    /\ op.addr + Len(op.data) <= 127

\* C36: for every register buffer the configuration parser can produce,
\* every write the configure step issues satisfies the precondition of the
\* SPI transport, and no assertion stops the initialization
C36_ConfigWritesAccepted ==
    drv_call.name = "rf_init" /\ ParserRegs(drv_call.regs) =>
        /\ \A i \in 1..Len(ConfigLog) : WriteAccepted(ConfigLog[i])
        /\ drv_call.fault # "assert"

\* the failing input: a configuration that sets all 127 registers 0..0x7E is
\* written as one run of 127 bytes, which the transport's assertion refuses
C36_FailingInput ==
    /\ drv_call.name = "rf_init"
    /\ ValidSet(drv_call.regs) = 0..126
    /\ drv_call.fault = "assert"
    /\ Len(ConfigLog) = 1
    /\ ConfigLog[1].addr = 0
    /\ Len(ConfigLog[1].data) = 127

\* every other configuration of the parser is written without an assertion
C36_ShorterRuns ==
    drv_call.name = "rf_init" /\ ValidSet(drv_call.regs) # 0..126 => C36_ConfigWritesAccepted

\* a run of 126 registers up to the last address the parser fills, accepted
C36_ShorterRunsWitness ==
    /\ drv_call.name = "rf_init"
    /\ ValidSet(drv_call.regs) = 1..126
    /\ Succeeded
    /\ Len(ConfigLog) = 1
    /\ Len(ConfigLog[1].data) = 126

----------------------------------------------------------------------------
(* The scratch buffer of the Si443x receive path *)

\* the bytes the call just made asked of the FIFO at fifo_addr, in all its
\* reads of it (a header read and a payload read at most)
FifoAsked(fifo_addr) ==
    LET reads == ReadsOf(fifo_addr)
    IN  IF reads = {} THEN 0
        ELSE LET lo == CHOOSE i \in reads : \A j \in reads : i <= j
                 hi == CHOOSE i \in reads : \A j \in reads : j <= i
             IN  Len(drv_call.log[lo].data)
                     + (IF hi # lo THEN Len(drv_call.log[hi].data) ELSE 0)

\* C37: in every rf_handle call of the Si443x, for every framing state
\* synchronized from the chip and every length byte read, the header and
\* payload read into the 64-byte scratch buffer are at most 64 bytes
\* together, the buffer is never written past its end, and each read of
\* FIFO_ACCESS has a length of at most 64, as the SPI transport requires
C37_Si443xScratchBound ==
    Called("si443x", "rf_handle") =>
        /\ Cardinality(ReadsOf(FIFO_ACCESS)) <= 2
        /\ FifoAsked(FIFO_ACCESS) <= SCRATCH_SIZE
        /\ \A i \in ReadsOf(FIFO_ACCESS) : Len(drv_call.log[i].data) <= 64
        /\ ~drv_call.over
        /\ drv_call.fault \notin {"crash", "assert"}

\* the failing input: a header length of 4 in variable-length mode and a
\* length byte of 61, which passes the size test: 66 bytes are read into the
\* 64-byte buffer
C37_FailingInput ==
    /\ Called("si443x", "rf_handle")
    /\ drv_call.dev_pre = [drv_call.dev_pre EXCEPT !.txhdlen = 4, !.fixpklen = 0]
    /\ FifoAsked(FIFO_ACCESS) = 66
    /\ LengthByte(HeaderRead(FIFO_ACCESS)) = 61
    /\ drv_call.over \/ drv_call.fault = "crash"

\* and a fixed packet length of 255: the payload read is refused by the
\* transport's assertion
C37_FailingInputFixed ==
    /\ Called("si443x", "rf_handle")
    /\ drv_call.dev_pre.fixpklen = 255
    /\ drv_call.fault = "assert"
    /\ Len(drv_call.log[Len(drv_call.log)].data) = 255

\* the framing keeps a whole packet within the scratch buffer: a header of
\* at most 2 bytes before the length byte, or a fixed length that with the
\* header is at most 64
FramingFits(d) ==
    IF d.fixpklen = 0 THEN d.txhdlen <= 2 ELSE d.txhdlen + d.fixpklen <= SCRATCH_SIZE

\* under such a framing the bound holds
C37_FittingFraming ==
    Called("si443x", "rf_handle") /\ FramingFits(drv_call.dev_pre) => C37_Si443xScratchBound

C37_FittingFramingWitness ==
    /\ Called("si443x", "rf_handle")
    /\ FramingFits(drv_call.dev_pre)
    /\ FifoAsked(FIFO_ACCESS) >= 62
    /\ Succeeded

----------------------------------------------------------------------------
(* The scratch buffers of the SX1231 *)

\* the receive part of the call, which came to m1, kept within its scratch
\* buffer
Sx1231RxBound(m1) ==
    /\ Cardinality(ReadsOf(RegFifo)) <= 2
    /\ FifoAsked(RegFifo) <= SCRATCH_SIZE
    /\ ~m1.over
    /\ m1.fault \notin {"crash", "assert"}

\* a frame that passes the range check of _send_frame fits its packet buffer
Sx1231TxBound(m1) ==
    TxStepTaken(m1) /\ ~TxOutOfRange(m1) => TxFrameLen(m1) <= SX1231_FIFO_SIZE

\* C38: in every rf_handle call of the SX1231, in variable-length mode with
\* any length prefix the range check accepts and in fixed-length mode with
\* any length read from RegPayloadLength, the length prefix and payload
\* stored in the scratch buffer of _receive_frame do not exceed its size,
\* and a frame that passes the range check of _send_frame has at most 66
\* bytes, the size of its packet buffer
C38_Sx1231ScratchBound ==
    Called("sx1231", "rf_handle") =>
        \A m1 \in {sx1231_handle_rx(CallEntry, drv_call.sc)} :
            Sx1231RxBound(m1) /\ Sx1231TxBound(m1)

\* the failing input: in variable-length mode a length prefix of 64, which
\* the range check accepts: 65 bytes are stored in the 64-byte buffer
C38_FailingInput ==
    /\ Called("sx1231", "rf_handle")
    /\ drv_call.dev_pre.fixpklen = 0
    /\ FifoAsked(RegFifo) = 65
    /\ LengthByte(HeaderRead(RegFifo)) = 64
    /\ drv_call.over \/ drv_call.fault = "crash"

\* and a fixed length of 65
C38_FailingInputFixed ==
    /\ Called("sx1231", "rf_handle")
    /\ drv_call.dev_pre.fixpklen = 65
    /\ FifoAsked(RegFifo) = 65
    /\ drv_call.over \/ drv_call.fault = "crash"

\* the packet announced fits the scratch buffer: a length prefix of at most
\* 63, or a fixed length of at most 64
Sx1231Fits ==
    IF drv_call.dev_pre.fixpklen # 0 THEN drv_call.dev_pre.fixpklen <= SCRATCH_SIZE
    ELSE ReadsOf(RegFifo) # {} => LengthByte(HeaderRead(RegFifo)) <= SCRATCH_SIZE - 1

\* for such packets the bound holds, and the bound of _send_frame holds
\* always
C38_FittingPackets ==
    Called("sx1231", "rf_handle") =>
        \A m1 \in {sx1231_handle_rx(CallEntry, drv_call.sc)} :
            /\ Sx1231Fits => Sx1231RxBound(m1)
            /\ Sx1231TxBound(m1)

C38_FittingPacketsWitness ==
    /\ Called("sx1231", "rf_handle")
    /\ drv_call.dev_pre.fixpklen = 0
    /\ FifoAsked(RegFifo) = 64
    /\ Succeeded

\* a frame of the configured length 65 passes the range check of _send_frame
C38_SendWitness ==
    /\ Called("sx1231", "rf_handle")
    /\ drv_call.dev_pre.fixpklen = 65
    /\ ~ring_buf_empty(drv_call.tx_pre)
    /\ Succeeded

----------------------------------------------------------------------------
(* The SX1231 receiver is re-armed *)

\* the modes the call just made wrote to RegOpMode, in order
ModeWrites ==
    LET w == SelectSeq(drv_call.log, LAMBDA op : op.rw = "w" /\ op.addr = RegOpMode)
    IN  [i \in 1..Len(w) |-> w[i].data[1]]

\* the mode switches of a recovery and of a transmission
RecoveryModes == <<OP_MODE_MODE_STDBY, OP_MODE_MODE_RX>>

TransmitModes == <<OP_MODE_MODE_STDBY, OP_MODE_MODE_TX, OP_MODE_MODE_RX>>

\* the call returned one of the two results after which the daemon goes on
KeepsRunning ==
    /\ drv_call.fault = "none"
    /\ drv_call.ret \in {ERR_OK, ERR_RFM_TX_OUT_OF_SYNC}

\* C39: an rf_init call of the SX1231 that succeeds leaves RX as the mode
\* last written to RegOpMode; an rf_handle call that finds it so and returns
\* ERR_OK or ERR_RFM_TX_OUT_OF_SYNC leaves it so, and the modes it wrote in
\* between are those of a recovery (STDBY, RX), of a transmission (STDBY, TX,
\* RX, with the FIFO filled before TX) or of the one after the other; hence
\* RX is the mode last written after every such call of a daemon that stops
\* at any other result
C39_ReceiverRearmed ==
    /\ Called("sx1231", "rf_init") /\ Succeeded => drv_hw[RegOpMode] = OP_MODE_MODE_RX
    /\ Called("sx1231", "rf_handle") /\ KeepsRunning
       /\ drv_call.hw_pre[RegOpMode] = OP_MODE_MODE_RX
       => /\ drv_hw[RegOpMode] = OP_MODE_MODE_RX
          /\ ModeWrites \in {<<>>, RecoveryModes, TransmitModes,
                             RecoveryModes \o TransmitModes}
          /\ drv_call.ret = ERR_RFM_TX_OUT_OF_SYNC => ModeWrites \in {<<>>, RecoveryModes}
          /\ \A i \in WritesOf(RegFifo) :
                /\ drv_call.log[i - 1].rw = "r"
                /\ \E j \in WritesOf(RegOpMode) :
                      /\ j < i
                      /\ drv_call.log[j].data[1] = OP_MODE_MODE_STDBY
                      /\ \A k \in WritesOf(RegOpMode) : ~(j < k /\ k < i)
                /\ drv_call.log[i + 1] = [rw |-> "w", addr |-> RegOpMode,
                                          data |-> <<OP_MODE_MODE_TX>>]

\* a call that received a packet with an invalid length, recovered, and then
\* sent a frame
C39_Witness ==
    /\ Called("sx1231", "rf_handle")
    /\ Succeeded
    /\ drv_call.hw_pre[RegOpMode] = OP_MODE_MODE_RX
    /\ ModeWrites = RecoveryModes \o TransmitModes
    /\ drv_hw[RegOpMode] = OP_MODE_MODE_RX

\* a call that recovered and then found the transmit buffer out of sync
C39_WitnessOutOfSync ==
    /\ Called("sx1231", "rf_handle")
    /\ drv_call.ret = ERR_RFM_TX_OUT_OF_SYNC
    /\ drv_call.hw_pre[RegOpMode] = OP_MODE_MODE_RX
    /\ ModeWrites = RecoveryModes

\* a call that fails in the middle of a transmission leaves another mode
C39_WitnessFailed ==
    /\ Called("sx1231", "rf_handle")
    /\ drv_call.ret = ERR_SPI
    /\ drv_hw[RegOpMode] = OP_MODE_MODE_TX

----------------------------------------------------------------------------
(* ring_buf_add is well-defined and terminates *)

\* the last call was ring_buf_add with fewer bytes than the capacity
AddBelowCapacity == rb_op.name = "add" /\ Len(rb_op.data) < rb_pre.size - 1

\* the bytes ring_buf_add has to drop to make room
AddShortfall == Len(rb_op.data) - ring_buf_bytes_free(rb_pre)

\* C40: for every reachable buffer and every len < size - 1, the
\* ring_buf_consume(len - free) call inside ring_buf_add satisfies its
\* assertion and leaves the buffer non-empty, every pass of the copy loop
\* copies at least one byte, the loop ends after at most two passes, and the
\* write offset ends in [0, size)
C40_AddTerminates ==
    AddBelowCapacity =>
        /\ rb_fault = "none"
        /\ AddShortfall > 0 =>
              /\ consume_assert(rb_pre, AddShortfall)
              /\ AddShortfall < ring_buf_bytes_used(rb_pre)
              /\ ~ring_buf_empty(ring_buf_consume(rb_pre, AddShortfall))
        /\ \A start \in {add_make_room(rb_pre, Len(rb_op.data))} :
              /\ ~add_copy_hangs(start, rb_op.data)
              /\ add_copy_passes(start, rb_op.data) <= 2
              /\ Len(rb_op.data) > 0 => ring_buf_bytes_writable(start) > 0
              /\ rb = add_copy_loop(start, rb_op.data)
        /\ rb.woff \in 0..(rb.size - 1)
        /\ ring_buf_bytes_used(rb) >= Len(rb_op.data)

\* an add that had to drop old bytes and copied in two passes, across the
\* end of the storage
C40_Witness ==
    /\ AddBelowCapacity
    /\ AddShortfall > 0
    /\ add_copy_passes(add_make_room(rb_pre, Len(rb_op.data)), rb_op.data) = 2
    /\ rb_fault = "none"

====
